---- MODULE Spec2Model ----
(***************************************************************************)
(* The cluster resource of the hpegl CaaS Terraform provider: the handlers *)
(* clusterCreateContext, clusterReadContext, clusterUpdateContext and      *)
(* clusterDeleteContext, the refresh closure built by createGetTokenFunc,  *)
(* and the merge of declared worker node pools with the default machine   *)
(* sets.  The wait loop is the one of terraform-plugin-sdk's               *)
(* resource.StateChangeConf, configured by the handlers.                   *)
(***************************************************************************)
EXTENDS Integers, Sequences, FiniteSets, TLC

\* ------------------------------------------------------------------ bounds

\* d.Timeout("create") / d.Timeout("delete"), counted in polling intervals
\* (60 minutes / 10 seconds in the source; the host may configure it).
TimeoutTicks == 5

\* The longest list of default machine sets and of declared worker_nodes
\* blocks the merge is checked on.
MaxDefaults == 2
MaxDeclared == 2

\* ------------------------------------------------------- program constants

stateInitializing == "initializing"
stateProvisioning == "infra-provisioning"
stateDeProvisioning == "infra-deprovisioning"
stateCreating == "creating"
stateDeleting == "deleting"
stateReady == "ready"
stateDeleted == "deleted"
stateUpdating == "updating"
stateUpgrading == "upgrading"
stateRetrying == "retrying"

retryLimit == 3

StatusInternalServerError == 500
StatusGatewayTimeout == 504
StatusUnauthorized == 401
StatusNotFound == 404
StatusServiceUnavailable == 503

\* The states the backend reports for a cluster.
BackendStates ==
  { stateInitializing, stateProvisioning, stateDeProvisioning, stateCreating,
    stateDeleting, stateReady, stateDeleted, stateUpdating, stateUpgrading }

\* ------------------------------------------------- one poll attempt's input

\* What auth.GetToken and V1ClustersGet give to one execution of the refresh
\* closure:
\*   tokenErr    auth.GetToken fails
\*   http        the list query fails with an HTTP response (resp != nil)
\*   netTimeout  the list query fails with no response, a net.Error timeout
\*   netErr      the list query fails with no response, another error
\*   absent      the list query succeeds, no item has the tracked id
\*   found       the list query succeeds, the item with the tracked id has
\*               the given state
Resp(k, st, s) == [kind |-> k, status |-> st, state |-> s]

Responses ==
  { Resp("tokenErr", 0, ""), Resp("netTimeout", 0, ""), Resp("netErr", 0, ""),
    Resp("absent", 200, "") }
  \cup { Resp("http", st, "") :
           st \in {StatusInternalServerError, StatusGatewayTimeout, StatusUnauthorized,
                   StatusNotFound, StatusServiceUnavailable} }
  \cup { Resp("found", 200, s) : s \in BackendStates }

\* Mutant: every error without a response is retryable.
isErrRetryable_Always(resp) == TRUE

\* isErrRetryable: only net timeouts are retryable.
isErrRetryable(resp) == resp.kind = "netTimeout"

\* The value one execution of the closure returns, and the counters it leaves.
Ret(s, e, ec, nc) ==
  [state |-> s, err |-> e, errRetryCount |-> ec, noEntryInListRetryCount |-> nc]

\* Mutant: the 504 case compares the counter with <=.
CaseGatewayTimeout_LimitInclusive(ec, nc) ==
  IF ec + 1 <= retryLimit
    THEN Ret(stateRetrying, "nil", ec + 1, nc)
    ELSE Ret("", "http", ec + 1, nc)

\* Mutant: status 504 is never fatal.
CaseGatewayTimeout_NoLimit(ec, nc) ==
  Ret(stateRetrying, "nil", ec + 1, nc)

\* case http.StatusGatewayTimeout of the switch (also reached by fallthrough
\* from case http.StatusInternalServerError).
CaseGatewayTimeout(ec, nc) ==
  IF ec + 1 < retryLimit
    THEN Ret(stateRetrying, "nil", ec + 1, nc)
    ELSE Ret("", "http", ec + 1, nc)

\* Mutant: a retried status 500 sets noEntryInListRetryCount to 0.
CaseInternalServerError_ResetsNoEntry(ec, nc) ==
  IF ec + 1 < retryLimit
    THEN Ret(stateRetrying, "nil", ec + 1, 0)
    ELSE CaseGatewayTimeout(ec + 1, nc)

\* Mutant: the first case compares with retryLimit - 1.
CaseInternalServerError_OffByOne(ec, nc) ==
  IF ec + 1 < retryLimit - 1
    THEN Ret(stateRetrying, "nil", ec + 1, nc)
    ELSE CaseGatewayTimeout(ec + 1, nc)

\* Mutant: the first case does not count the error.
CaseInternalServerError_NoIncrement(ec, nc) ==
  IF ec < retryLimit
    THEN Ret(stateRetrying, "nil", ec, nc)
    ELSE CaseGatewayTimeout(ec + 1, nc)

\* case http.StatusInternalServerError of the switch.
CaseInternalServerError(ec, nc) ==
  IF ec + 1 < retryLimit
    THEN Ret(stateRetrying, "nil", ec + 1, nc)
    ELSE CaseGatewayTimeout(ec + 1, nc)

\* Mutant: a cluster missing from the list is retried without a limit.
ClusterNil_NoLimit(expectedState, nc) ==
  IF expectedState = stateDeleted
    THEN Ret(stateDeleted, "nil", 0, nc)
    ELSE Ret(stateRetrying, "nil", 0, nc + 1)

\* Mutant: the expected state is not looked at.
ClusterNil_IgnoresExpected(expectedState, nc) ==
  IF nc + 1 > retryLimit
    THEN Ret("", "notfound", 0, nc + 1)
    ELSE Ret(stateRetrying, "nil", 0, nc + 1)

\* Mutant: the limit is compared with >=.
ClusterNil_OffByOne(expectedState, nc) ==
  IF expectedState = stateDeleted
    THEN Ret(stateDeleted, "nil", 0, nc)
    ELSE IF nc + 1 >= retryLimit
           THEN Ret("", "notfound", 0, nc + 1)
           ELSE Ret(stateRetrying, "nil", 0, nc + 1)

\* The branch taken when the list query succeeded but holds no item with the
\* tracked id.
ClusterNil(expectedState, nc) ==
  IF expectedState = stateDeleted
    THEN Ret(stateDeleted, "nil", 0, nc)
    ELSE IF nc + 1 > retryLimit
           THEN Ret("", "notfound", 0, nc + 1)
           ELSE Ret(stateRetrying, "nil", 0, nc + 1)

\* Mutant: a cluster that is found is reported in the expected state.
getTokenFunc_ReturnsExpected(ec, nc, expectedState, resp) ==
  CASE resp.kind = "tokenErr" -> Ret("", "token", ec, nc)
    [] resp.kind = "http" ->
         IF resp.status = StatusInternalServerError THEN CaseInternalServerError(ec, nc)
         ELSE IF resp.status = StatusGatewayTimeout THEN CaseGatewayTimeout(ec, nc)
         ELSE Ret("", "http", ec, nc)
    [] resp.kind \in {"netTimeout", "netErr"} ->
         IF isErrRetryable(resp) /\ ec + 1 < retryLimit
           THEN Ret(stateRetrying, "nil", ec + 1, nc)
           ELSE Ret("", "list", IF isErrRetryable(resp) THEN ec + 1 ELSE ec, nc)
    [] resp.kind = "absent" -> ClusterNil(expectedState, nc)
    [] OTHER -> Ret(expectedState, "nil", 0, 0)

\* Mutant: every status of a failed list query is counted and retried.
getTokenFunc_RetriesEveryStatus(ec, nc, expectedState, resp) ==
  CASE resp.kind = "tokenErr" -> Ret("", "token", ec, nc)
    [] resp.kind = "http" -> CaseGatewayTimeout(ec, nc)
    [] resp.kind \in {"netTimeout", "netErr"} ->
         IF isErrRetryable(resp) /\ ec + 1 < retryLimit
           THEN Ret(stateRetrying, "nil", ec + 1, nc)
           ELSE Ret("", "list", IF isErrRetryable(resp) THEN ec + 1 ELSE ec, nc)
    [] resp.kind = "absent" -> ClusterNil(expectedState, nc)
    [] OTHER -> Ret(resp.state, "nil", 0, 0)

\* Mutant: a list query that finds the cluster leaves errRetryCount as it is.
getTokenFunc_KeepsErrCount(ec, nc, expectedState, resp) ==
  CASE resp.kind = "tokenErr" -> Ret("", "token", ec, nc)
    [] resp.kind = "http" ->
         IF resp.status = StatusInternalServerError THEN CaseInternalServerError(ec, nc)
         ELSE IF resp.status = StatusGatewayTimeout THEN CaseGatewayTimeout(ec, nc)
         ELSE Ret("", "http", ec, nc)
    [] resp.kind \in {"netTimeout", "netErr"} ->
         IF isErrRetryable(resp) /\ ec + 1 < retryLimit
           THEN Ret(stateRetrying, "nil", ec + 1, nc)
           ELSE Ret("", "list", IF isErrRetryable(resp) THEN ec + 1 ELSE ec, nc)
    [] resp.kind = "absent" -> ClusterNil(expectedState, nc)
    [] OTHER -> Ret(resp.state, "nil", ec, 0)

\* Mutant: a list query that finds the cluster leaves noEntryInListRetryCount
\* as it is.
getTokenFunc_KeepsNoEntryCount(ec, nc, expectedState, resp) ==
  CASE resp.kind = "tokenErr" -> Ret("", "token", ec, nc)
    [] resp.kind = "http" ->
         IF resp.status = StatusInternalServerError THEN CaseInternalServerError(ec, nc)
         ELSE IF resp.status = StatusGatewayTimeout THEN CaseGatewayTimeout(ec, nc)
         ELSE Ret("", "http", ec, nc)
    [] resp.kind \in {"netTimeout", "netErr"} ->
         IF isErrRetryable(resp) /\ ec + 1 < retryLimit
           THEN Ret(stateRetrying, "nil", ec + 1, nc)
           ELSE Ret("", "list", IF isErrRetryable(resp) THEN ec + 1 ELSE ec, nc)
    [] resp.kind = "absent" -> ClusterNil(expectedState, nc)
    [] OTHER -> Ret(resp.state, "nil", 0, nc)

\* Mutant: a failure of auth.GetToken is counted and retried like a timeout.
getTokenFunc_RetriesTokenError(ec, nc, expectedState, resp) ==
  CASE resp.kind = "tokenErr" ->
         IF ec + 1 < retryLimit
           THEN Ret(stateRetrying, "nil", ec + 1, nc)
           ELSE Ret("", "token", ec + 1, nc)
    [] resp.kind = "http" ->
         IF resp.status = StatusInternalServerError THEN CaseInternalServerError(ec, nc)
         ELSE IF resp.status = StatusGatewayTimeout THEN CaseGatewayTimeout(ec, nc)
         ELSE Ret("", "http", ec, nc)
    [] resp.kind \in {"netTimeout", "netErr"} ->
         IF isErrRetryable(resp) /\ ec + 1 < retryLimit
           THEN Ret(stateRetrying, "nil", ec + 1, nc)
           ELSE Ret("", "list", IF isErrRetryable(resp) THEN ec + 1 ELSE ec, nc)
    [] resp.kind = "absent" -> ClusterNil(expectedState, nc)
    [] OTHER -> Ret(resp.state, "nil", 0, 0)

\* The closure returned by createGetTokenFunc, executed once with counters
\* ec (errRetryCount) and nc (noEntryInListRetryCount).
getTokenFunc(ec, nc, expectedState, resp) ==
  CASE resp.kind = "tokenErr" -> Ret("", "token", ec, nc)
    [] resp.kind = "http" ->
         IF resp.status = StatusInternalServerError THEN CaseInternalServerError(ec, nc)
         ELSE IF resp.status = StatusGatewayTimeout THEN CaseGatewayTimeout(ec, nc)
         ELSE Ret("", "http", ec, nc)
    [] resp.kind \in {"netTimeout", "netErr"} ->
         IF isErrRetryable(resp) /\ ec + 1 < retryLimit
           THEN Ret(stateRetrying, "nil", ec + 1, nc)
           ELSE Ret("", "list", IF isErrRetryable(resp) THEN ec + 1 ELSE ec, nc)
    [] resp.kind = "absent" -> ClusterNil(expectedState, nc)
    [] OTHER -> Ret(resp.state, "nil", 0, 0)

\* ------------------------------------------------------------ the wait loop

\* What StateChangeConf.WaitForStateContext does with one refresh result (the
\* result value, d.Get("name"), is never nil): an error ends the wait, a
\* target state ends it with success, a pending state continues it, and when
\* Pending is not empty any other state ends it with an unexpected-state
\* error.
WaitStep(pending, target, r) ==
  IF r.err # "nil" THEN "error"
  ELSE IF r.state \in target THEN "success"
  ELSE IF r.state \in pending \/ pending = {} THEN "pending"
  ELSE "unexpected"

\* The four StateChangeConf values of the handlers.
createStateConf ==
  [ row |-> "create", delay |-> 0,
    pending |-> {stateInitializing, stateProvisioning, stateCreating, stateRetrying},
    target |-> {stateReady}, expected |-> stateReady ]

createUpdateStateConf ==
  [ row |-> "create_update", delay |-> 0,
    pending |-> {stateProvisioning, stateCreating, stateRetrying, stateUpdating,
                 stateDeProvisioning, stateUpgrading},
    target |-> {stateReady}, expected |-> stateReady ]

\* Mutant: the wait of Update starts after one polling interval.
updateStateConf_Delayed ==
  [ row |-> "update", delay |-> 1,
    pending |-> {stateProvisioning, stateCreating, stateRetrying, stateUpdating,
                 stateDeProvisioning, stateUpgrading},
    target |-> {stateReady}, expected |-> stateReady ]

\* Mutant: the wait of Update has the pending states of the first wait of
\* Create as well.
updateStateConf_WithInitializing ==
  [ row |-> "update", delay |-> 0,
    pending |-> {stateInitializing, stateProvisioning, stateCreating, stateRetrying,
                 stateUpdating, stateDeProvisioning, stateUpgrading},
    target |-> {stateReady}, expected |-> stateReady ]

updateStateConf ==
  [ row |-> "update", delay |-> 0,
    pending |-> {stateProvisioning, stateCreating, stateRetrying, stateUpdating,
                 stateDeProvisioning, stateUpgrading},
    target |-> {stateReady}, expected |-> stateReady ]

\* Mutant: ready is a pending state of the wait of Delete.
deleteStateConf_ReadyPending ==
  [ row |-> "delete", delay |-> 1,
    pending |-> {stateDeleting, stateRetrying, stateReady},
    target |-> {stateDeleted}, expected |-> stateDeleted ]

\* Mutant: the wait of Delete starts without a delay.
deleteStateConf_NoDelay ==
  [ row |-> "delete", delay |-> 0,
    pending |-> {stateDeleting, stateRetrying},
    target |-> {stateDeleted}, expected |-> stateDeleted ]

\* Mutant: the wait of Delete names no pending states.
deleteStateConf_NoPending ==
  [ row |-> "delete", delay |-> 1,
    pending |-> {},
    target |-> {stateDeleted}, expected |-> stateDeleted ]

\* Mutant: ready is a target of the wait of Delete.
deleteStateConf_ReadyTarget ==
  [ row |-> "delete", delay |-> 1,
    pending |-> {stateDeleting, stateRetrying},
    target |-> {stateDeleted, stateReady}, expected |-> stateDeleted ]

deleteStateConf ==
  [ row |-> "delete", delay |-> 1,
    pending |-> {stateDeleting, stateRetrying},
    target |-> {stateDeleted}, expected |-> stateDeleted ]

\* ------------------------------------------------------------ machine sets

\* mcaasapi.MachineSet, and the entries of default_machine_sets / machine_sets.
MS(n, c, v) ==
  [name |-> n, machine_blueprint_id |-> "bp", count |-> c, os_image |-> "img",
   os_version |-> v]

\* mcaasapi.MachineSetDetail, reduced to what the handlers read of it.
MSD(n, roles) == [name |-> n, machine_roles |-> roles]

WorkerPresentInMachineSets(machineSets, workername) ==
  \E i \in DOMAIN machineSets : machineSets[i].name = workername

\* utils.RemoveWorkerFromMachineSets: the machine sets without the one named
\* workername.
RemoveWorkerFromMachineSets(machineSets, workername) ==
  SelectSeq(machineSets, LAMBDA ms : ms.name # workername)

\* The inner loop of GetDefaultWorkersName: one append per role "worker".
RECURSIVE WorkerRoles(_, _)
WorkerRoles(name, roles) ==
  IF roles = << >> THEN << >>
  ELSE (IF Head(roles) = "worker" THEN << name >> ELSE << >>)
         \o WorkerRoles(name, Tail(roles))

\* The outer loop of GetDefaultWorkersName.
RECURSIVE WorkerNames(_)
WorkerNames(details) ==
  IF details = << >> THEN << >>
  ELSE WorkerRoles(Head(details).name, Head(details).machine_roles)
         \o WorkerNames(Tail(details))

\* Mutant: an empty list of names is returned without an error.
GetDefaultWorkersName_NoError(details) ==
  [names |-> WorkerNames(details), err |-> "nil"]

\* GetDefaultWorkersName(d): the names and the error.
GetDefaultWorkersName(details) ==
  LET workerNames == WorkerNames(details)
  IN  IF Len(workerNames) = 0
        THEN [names |-> << >>, err |-> "noworker"]
        ELSE [names |-> workerNames, err |-> "nil"]

\* The loop "for _, defaultWorkerName := range defaultWorkersName" of both
\* handlers: a default worker that is declared is removed from the defaults.
RECURSIVE RemoveDeclared(_, _, _)
RemoveDeclared(defaultMachineSets, machineSets, defaultWorkersName) ==
  IF defaultWorkersName = << >> THEN defaultMachineSets
  ELSE RemoveDeclared(
         IF WorkerPresentInMachineSets(machineSets, Head(defaultWorkersName))
           THEN RemoveWorkerFromMachineSets(defaultMachineSets, Head(defaultWorkersName))
           ELSE defaultMachineSets,
         machineSets, Tail(defaultWorkersName))

\* os_version and os_image of the machine set named dwn in machine_sets: the
\* last match wins, "" when there is none.
RECURSIVE LatestOs(_, _, _)
LatestOs(machinesets, dwn, acc) ==
  IF machinesets = << >> THEN acc
  ELSE LatestOs(Tail(machinesets), dwn,
         IF Head(machinesets).name = dwn
           THEN [os_version |-> Head(machinesets).os_version,
                 os_image |-> Head(machinesets).os_image]
           ELSE acc)

\* Mutant: every default keeps its own OS image and version.
getDefaultMachineSet_KeepsOs(machine_sets, dwns, defaultMachineSet) ==
  [name |-> defaultMachineSet.name,
   machine_blueprint_id |-> defaultMachineSet.machine_blueprint_id,
   count |-> defaultMachineSet.count,
   os_image |-> defaultMachineSet.os_image,
   os_version |-> defaultMachineSet.os_version]

\* getDefaultMachineSet: a default worker takes its OS image and version from
\* machine_sets, any other default keeps its own.
getDefaultMachineSet(machine_sets, dwns, defaultMachineSet) ==
  LET found == \E i \in DOMAIN dwns : dwns[i] = defaultMachineSet.name
      os == IF found
              THEN LatestOs(machine_sets, defaultMachineSet.name,
                            [os_version |-> "", os_image |-> ""])
              ELSE [os_version |-> defaultMachineSet.os_version,
                    os_image |-> defaultMachineSet.os_image]
  IN  [name |-> defaultMachineSet.name,
       machine_blueprint_id |-> defaultMachineSet.machine_blueprint_id,
       count |-> defaultMachineSet.count,
       os_image |-> os.os_image, os_version |-> os.os_version]

\* json.Marshal of []MachineSet, json.Unmarshal as []UpdateClusterMachineSet.
FinalMachineSets(machineSets) ==
  [i \in DOMAIN machineSets |->
     [name |-> machineSets[i].name,
      machine_blueprint_id |-> machineSets[i].machine_blueprint_id,
      count |-> machineSets[i].count,
      os_image |-> machineSets[i].os_image,
      os_version |-> machineSets[i].os_version]]

\* Mutant: the defaults are appended to the declared sets.
CreateMerge_DeclaredFirst(workerNodes, clusterMachineSets, defaultWorkersName) ==
  FinalMachineSets(
    workerNodes
      \o RemoveDeclared(clusterMachineSets, workerNodes, defaultWorkersName))

\* The merge of clusterCreateContext: the defaults come from the cluster the
\* create call returned, and the declared sets are appended to them.
CreateMerge(workerNodes, clusterMachineSets, defaultWorkersName) ==
  FinalMachineSets(
    RemoveDeclared(clusterMachineSets, workerNodes, defaultWorkersName)
      \o workerNodes)

\* The merge of clusterUpdateContext: the defaults come from
\* default_machine_sets through getDefaultMachineSet, and are appended to the
\* declared sets.
UpdateMerge(workerNodes, default_machine_sets, machine_sets, defaultWorkersName) ==
  LET defaultMachineSets ==
        [i \in DOMAIN default_machine_sets |->
           getDefaultMachineSet(machine_sets, defaultWorkersName,
                                default_machine_sets[i])]
  IN  FinalMachineSets(
        workerNodes
          \o RemoveDeclared(defaultMachineSets, workerNodes, defaultWorkersName))

\* ------------------------------------------------------------------- state

VARIABLES
  d,        \* schema.ResourceData of the cluster resource
  op,       \* the handler the host is running: none, create, read, update, delete
  pc,       \* where the handler stands: idle, poll, setid, read, done, crash
  cluster,  \* the cluster the create call returned
  conf,     \* the StateChangeConf of the running wait
  poll,     \* the running wait: the closure's counters, attempts, elapsed time
  diags,    \* what the handler returned to the host
  calls,    \* the API calls of the running handler
  idBefore, \* d.Id() when the running handler started
  sent,     \* the machine sets of the last update call
  tainted,  \* the host marked the resource tainted: its Create failed with the id set
  trace,    \* with rec: the inputs of the attempts of the running wait
  rec,
  bp,       \* a blueprint resource, its handler and the backend's blueprints
  pair      \* the waits of two handlers that run at the same time

vars ==
  << d, op, pc, cluster, conf, poll, diags, calls, idBefore, sent, tainted, trace, rec,
     bp, pair >>

\* The cluster id the backend assigns.
ClusterId == "c1"

\* The default machine sets the backend creates with a cluster, and their
\* details: a control plane and a worker pool, or (unexpected backend data) no
\* pool with role worker.
BackendClusters ==
  { [ Id |-> ClusterId,
      MachineSets |-> << MS("cp", 1, "v1"), MS("w1", 2, "v1") >>,
      MachineSetsDetail |-> << MSD("cp", << "controlplane" >>), MSD("w1", << "worker" >>) >> ],
    [ Id |-> ClusterId,
      MachineSets |-> << MS("cp", 1, "v1") >>,
      MachineSetsDetail |-> << MSD("cp", << "controlplane" >>) >> ] }

NoCluster == [Id |-> "", MachineSets |-> << >>, MachineSetsDetail |-> << >>]

\* The worker_nodes blocks and kubernetes_version values of the configuration.
WorkerNodesConfigs == { << >>, << MS("w1", 3, "v1") >>, << MS("w2", 1, "v1") >> }
KubernetesVersions == { "", "1.24" }

\* The machine sets a get-cluster call reports: the defaults, the default
\* worker possibly on a newer OS version.
RemoteMachineSets ==
  { << MS("cp", 1, "v1"), MS("w1", 2, "v1") >>,
    << MS("cp", 1, "v1"), MS("w1", 2, "v2") >> }

\* The cluster states a get-cluster call reports.
RemoteStates == { stateReady, stateUpdating }

EmptyD ==
  [ id |-> "", worker_nodes |-> << >>, kubernetes_version |-> "",
    default_machine_sets |-> << >>, default_machine_sets_detail |-> << >>,
    machine_sets |-> << >>, state |-> "", kubeconfig |-> FALSE ]

\* The API calls of a handler, counted; token counts the calls of
\* auth.GetToken, and putToken is the number of the token the update call
\* carried (0: no update call).
NoCalls ==
  [ post |-> 0, put |-> 0, delete |-> 0, get |-> 0, kubeconfig |-> 0, list |-> 0,
    token |-> 0, putToken |-> 0 ]

NoConf == [row |-> "none", delay |-> 0, pending |-> {}, target |-> {}, expected |-> ""]

NoPoll ==
  [ status |-> "none", attempts |-> 0, clock |-> 0, errRetryCount |-> 0,
    noEntryInListRetryCount |-> 0, resp |-> Resp("none", 0, ""), state |-> "",
    idAtStart |-> "", listToken |-> 0 ]

\* createGetTokenFunc sets both counters to 0; the wait starts after conf.Delay.
\* idAtStart records d.Id() at that moment, listToken the token the last list
\* query of the wait carried (0: no list query yet).
StartPoll(c, id) ==
  [ status |-> "polling", attempts |-> 0, clock |-> c.delay, errRetryCount |-> 0,
    noEntryInListRetryCount |-> 0, resp |-> Resp("none", 0, ""), state |-> "",
    idAtStart |-> id, listToken |-> 0 ]

\* No blueprint resource is managed.
NoBlueprintCalls == [post |-> 0, get |-> 0, delete |-> 0, token |-> 0]

NoBlueprint ==
  [ kind |-> "none", id |-> "", op |-> "none", pc |-> "idle", diags |-> "none",
    calls |-> NoBlueprintCalls, idBefore |-> "", tainted |-> FALSE,
    remote |-> {}, next |-> 1 ]

\* Two handlers the host runs at the same time, each for a cluster of its
\* own, and the wait of each: its StateChangeConf, the closure's counters and
\* the inputs of its attempts.
Reconcilers == { "r1", "r2" }

NoWait == [conf |-> NoConf, poll |-> NoPoll, trace |-> << >>]

NoPair == [r \in Reconcilers |-> NoWait]

\* d.GetOk(key): the keys of the schema are those the handlers set and get;
\* a key that is not in the schema is never present.
SchemaKeys == { "worker_nodes", "kubernetes_version" }

GetOk(data, key) ==
  IF key \notin SchemaKeys THEN FALSE
  ELSE IF key = "worker_nodes" THEN data.worker_nodes # << >>
  ELSE data.kubernetes_version # ""

Init ==
  /\ d = EmptyD
  /\ op = "none"
  /\ pc = "idle"
  /\ cluster = NoCluster
  /\ conf = NoConf
  /\ poll = NoPoll
  /\ diags = "none"
  /\ calls = NoCalls
  /\ idBefore = ""
  /\ sent = << >>
  /\ tainted = FALSE
  /\ trace = << >>
  /\ rec = FALSE
  /\ bp = NoBlueprint
  /\ pair = NoPair

\* The outcomes of a mutating API call: success, an error with an HTTP
\* response, an error with no response (resp == nil).
CallResults == { "ok", "httpErr", "netErr" }

\* The outcomes of client.GetClientFromMetaMap and auth.GetToken at the start
\* of a handler.
PreResults == { "ok", "clientErr", "tokenErr" }

Tokens(pre) == IF pre = "clientErr" THEN 0 ELSE 1

\* A handler returns.
Return(dg) ==
  /\ pc' = "done"
  /\ diags' = dg

----------------------------------------------------------------------------
\* clusterCreateContext up to its first wait: the token, the create call and
\* createStateConf.  utils.GetErrorMessage(err, resp.StatusCode) reads the
\* status code of a nil response when the call failed with no response.
Create(wn, kv, pre, call, cl) ==
  /\ pc = "idle" /\ d.id = ""
  /\ op' = "create"
  /\ idBefore' = d.id
  /\ d' = [EmptyD EXCEPT !.worker_nodes = wn, !.kubernetes_version = kv]
  /\ sent' = << >>
  /\ trace' = << >>
  /\ IF pre # "ok"
       THEN /\ Return(pre)
            /\ calls' = [NoCalls EXCEPT !.token = Tokens(pre)]
            /\ UNCHANGED << cluster, conf, poll >>
       ELSE /\ calls' = [NoCalls EXCEPT !.token = 1, !.post = 1]
            /\ IF call = "ok"
                 THEN /\ cluster' = cl
                      /\ conf' = createStateConf
                      /\ poll' = StartPoll(createStateConf, d.id)
                      /\ pc' = "poll"
                      /\ diags' = "none"
                 ELSE /\ pc' = IF call = "netErr" THEN "crash" ELSE "done"
                      /\ diags' = IF call = "netErr" THEN "panic" ELSE "postErr"
                      /\ UNCHANGED << cluster, conf, poll >>
  /\ UNCHANGED << tainted, rec, bp, pair >>

\* Mutant: the closure keeps the token it has.
GetToken_Cached(made) == IF made.token = 0 THEN 1 ELSE made.token

\* auth.GetToken in the refresh closure: one more call of the token provider;
\* the tokens given to a handler are numbered in the order of the calls.
GetToken(made) == made.token + 1

\* The error a failed wait returns to the host.
WaitError(step, r) ==
  IF step = "unexpected" THEN "unexpectedState" ELSE r.err

\* One execution of the refresh closure inside WaitForStateContext, after the
\* sleep of one polling interval that separates it from the previous one, and
\* what the handler does when the wait returns: an error is returned to the
\* host; clusterDeleteContext clears the id; the other handlers go on.
PollAttempt(resp) ==
  /\ pc = "poll"
  /\ LET clk == IF poll.attempts = 0 THEN poll.clock ELSE poll.clock + 1
         r == getTokenFunc(poll.errRetryCount, poll.noEntryInListRetryCount,
                           conf.expected, resp)
         step == WaitStep(conf.pending, conf.target, r)
         token == GetToken(calls)
     IN  /\ clk < TimeoutTicks
         /\ poll' = [ status |-> step, attempts |-> poll.attempts + 1, clock |-> clk,
                      errRetryCount |-> r.errRetryCount,
                      noEntryInListRetryCount |-> r.noEntryInListRetryCount,
                      resp |-> resp, state |-> r.state,
                      idAtStart |-> poll.idAtStart,
                      listToken |-> IF resp.kind = "tokenErr" THEN poll.listToken ELSE token ]
         /\ calls' = [calls EXCEPT !.token = token,
                                   !.list = @ + (IF resp.kind = "tokenErr" THEN 0 ELSE 1)]
         /\ trace' = IF rec THEN Append(trace, resp) ELSE trace
         /\ CASE step = "pending" -> UNCHANGED << pc, diags, d >>
              [] step = "success" /\ conf.row = "delete" ->
                   /\ d' = [d EXCEPT !.id = ""]
                   /\ Return("ok")
              [] step = "success" /\ conf.row = "create" ->
                   /\ pc' = "setid"
                   /\ UNCHANGED << diags, d >>
              [] step = "success" /\ conf.row \in {"create_update", "update"} ->
                   /\ pc' = "read"
                   /\ UNCHANGED << diags, d >>
              [] OTHER ->
                   /\ Return(WaitError(step, r))
                   /\ UNCHANGED d
  /\ UNCHANGED << op, cluster, conf, idBefore, sent, tainted, rec, bp, pair >>

\* Time passes during a wait without a new attempt (a slow call).
Tick ==
  /\ pc = "poll"
  /\ poll.clock < TimeoutTicks
  /\ poll' = [poll EXCEPT !.clock = @ + 1]
  /\ UNCHANGED << d, op, pc, cluster, conf, diags, calls, idBefore, sent, tainted, trace, rec, bp, pair >>

\* Mutant: the handler clears the id before it looks at the wait's error.
PollTimeout_ClearsId ==
  /\ pc = "poll"
  /\ (IF poll.attempts = 0 THEN poll.clock ELSE poll.clock + 1) >= TimeoutTicks
  /\ poll' = [poll EXCEPT !.status = "timeout", !.clock = TimeoutTicks]
  /\ Return("timeout")
  /\ d' = [d EXCEPT !.id = ""]
  /\ UNCHANGED << op, cluster, conf, calls, idBefore, sent, tainted, trace, rec, bp, pair >>

\* Mutant: the deadline is compared strictly with the time of the next attempt.
PollTimeout_Strict ==
  /\ pc = "poll"
  /\ (IF poll.attempts = 0 THEN poll.clock ELSE poll.clock + 1) > TimeoutTicks + 1
  /\ poll' = [poll EXCEPT !.status = "timeout", !.clock = TimeoutTicks]
  /\ Return("timeout")
  /\ UNCHANGED << d, op, cluster, conf, calls, idBefore, sent, tainted, trace, rec, bp, pair >>

\* conf.Timeout elapses before the next attempt: WaitForStateContext returns
\* a TimeoutError and the handler returns it.
PollTimeout ==
  /\ pc = "poll"
  /\ (IF poll.attempts = 0 THEN poll.clock ELSE poll.clock + 1) >= TimeoutTicks
  /\ poll' = [poll EXCEPT !.status = "timeout", !.clock = TimeoutTicks]
  /\ Return("timeout")
  /\ UNCHANGED << d, op, cluster, conf, calls, idBefore, sent, tainted, trace, rec, bp, pair >>

\* Mutant: the update call carries the token the handler was given last.
PutToken_Latest(made) == made.token

\* The token in the context of the update call: clientCtx is built from the
\* variable token, assigned once, by the handler's first statement after it
\* got the client; it is the first token the handler was given.
PutToken(made) == IF made.token = 0 THEN 0 ELSE 1

\* The update call of clusterCreateContext and clusterUpdateContext, and the
\* wait that follows it.  utils.GetErrorMessage(err, resp.StatusCode) reads
\* the status code of a nil response when the call failed with no response.
Put(machineSets, call, c, id, made) ==
  /\ calls' = [made EXCEPT !.put = @ + 1, !.putToken = PutToken(made)]
  /\ sent' = machineSets
  /\ IF call = "ok"
       THEN /\ conf' = c
            /\ poll' = StartPoll(c, id)
            /\ pc' = "poll"
            /\ diags' = "none"
       ELSE /\ pc' = IF call = "netErr" THEN "crash" ELSE "done"
            /\ diags' = IF call = "netErr" THEN "panic" ELSE "putErr"
            /\ UNCHANGED << conf, poll >>

\* clusterCreateContext after its first wait: the id and the defaults are
\* set, and when worker_nodes or "kubernetesVersion" is present the defaults
\* are merged with the declared sets and sent in an update call, followed by
\* a second wait.  Otherwise the handler goes on with clusterReadContext.
CreateFollowUp(call) ==
  /\ pc = "setid"
  /\ LET d1 == [d EXCEPT !.id = cluster.Id,
                         !.default_machine_sets = cluster.MachineSets,
                         !.default_machine_sets_detail = cluster.MachineSetsDetail]
         workerNodePresent == GetOk(d1, "worker_nodes")
         k8sVersionPresent == GetOk(d1, "kubernetesVersion")
         dwn == GetDefaultWorkersName(d1.default_machine_sets_detail)
     IN  /\ d' = d1
         /\ IF workerNodePresent \/ k8sVersionPresent
              THEN IF dwn.err # "nil"
                     THEN /\ Return(dwn.err)
                          /\ UNCHANGED << conf, poll, calls, sent >>
                     ELSE Put(CreateMerge(d1.worker_nodes, cluster.MachineSets, dwn.names),
                              call, createUpdateStateConf, d1.id, calls)
              ELSE /\ pc' = "read"
                   /\ UNCHANGED << conf, poll, calls, sent, diags >>
  /\ trace' = << >>
  /\ UNCHANGED << op, cluster, idBefore, tainted, rec, bp, pair >>

\* Mutant: writeClusterResourceValues writes the machine sets it read to
\* default_machine_sets as well.
clusterReadContext_WritesDefaults(pre, get, st, ms, kube) ==
  IF pre # "ok"
    THEN /\ Return(pre)
         /\ calls' = [calls EXCEPT !.token = @ + Tokens(pre)]
         /\ UNCHANGED d
  ELSE IF get # "ok"
    THEN /\ Return("getErr")
         /\ calls' = [calls EXCEPT !.token = @ + 1, !.get = @ + 1]
         /\ UNCHANGED d
  ELSE /\ calls' = [calls EXCEPT !.token = @ + 1, !.get = @ + 1, !.kubeconfig = @ + 1]
       /\ d' = [d EXCEPT !.state = st, !.machine_sets = ms,
                         !.default_machine_sets = ms,
                         !.kubernetes_version = "1.24",
                         !.kubeconfig = IF kube = "ok" THEN TRUE ELSE @]
       /\ Return(IF kube = "ok" THEN "ok" ELSE "kubeconfigErr")

\* clusterReadContext: the token, the get-cluster call,
\* writeClusterResourceValues, the kubeconfig call.
clusterReadContext(pre, get, st, ms, kube) ==
  IF pre # "ok"
    THEN /\ Return(pre)
         /\ calls' = [calls EXCEPT !.token = @ + Tokens(pre)]
         /\ UNCHANGED d
  ELSE IF get # "ok"
    THEN /\ Return("getErr")
         /\ calls' = [calls EXCEPT !.token = @ + 1, !.get = @ + 1]
         /\ UNCHANGED d
  ELSE /\ calls' = [calls EXCEPT !.token = @ + 1, !.get = @ + 1, !.kubeconfig = @ + 1]
       /\ d' = [d EXCEPT !.state = st, !.machine_sets = ms,
                         !.kubernetes_version = "1.24",
                         !.kubeconfig = IF kube = "ok" THEN TRUE ELSE @]
       /\ Return(IF kube = "ok" THEN "ok" ELSE "kubeconfigErr")

\* The read that ends clusterCreateContext and clusterUpdateContext.
Read(pre, get, st, ms, kube) ==
  /\ pc = "read"
  /\ clusterReadContext(pre, get, st, ms, kube)
  /\ trace' = << >>
  /\ UNCHANGED << op, cluster, conf, poll, idBefore, sent, tainted, rec, bp, pair >>

\* Mutant: a failed get-cluster call is taken for a cluster that is gone.
Refresh_ClearsIdOnGetError(pre, get, st, ms, kube) ==
  /\ pc = "idle" /\ d.id # ""
  /\ op' = "read"
  /\ idBefore' = d.id
  /\ IF pre # "ok"
       THEN /\ Return(pre)
            /\ calls' = [NoCalls EXCEPT !.token = Tokens(pre)]
            /\ UNCHANGED d
     ELSE IF get # "ok"
       THEN /\ Return("getErr")
            /\ calls' = [NoCalls EXCEPT !.token = 1, !.get = 1]
            /\ d' = [d EXCEPT !.id = ""]
     ELSE /\ calls' = [NoCalls EXCEPT !.token = 1, !.get = 1, !.kubeconfig = 1]
          /\ d' = [d EXCEPT !.state = st, !.machine_sets = ms,
                            !.kubernetes_version = "1.24",
                            !.kubeconfig = IF kube = "ok" THEN TRUE ELSE @]
          /\ Return(IF kube = "ok" THEN "ok" ELSE "kubeconfigErr")
  /\ UNCHANGED << cluster, conf, poll, sent, tainted, trace, rec, bp, pair >>

\* The host refreshes the resource: clusterReadContext alone.
Refresh(pre, get, st, ms, kube) ==
  /\ pc = "idle" /\ d.id # ""
  /\ op' = "read"
  /\ idBefore' = d.id
  /\ LET fresh == NoCalls
     IN  IF pre # "ok"
           THEN /\ Return(pre)
                /\ calls' = [fresh EXCEPT !.token = Tokens(pre)]
                /\ UNCHANGED d
         ELSE IF get # "ok"
           THEN /\ Return("getErr")
                /\ calls' = [fresh EXCEPT !.token = 1, !.get = 1]
                /\ UNCHANGED d
         ELSE /\ calls' = [fresh EXCEPT !.token = 1, !.get = 1, !.kubeconfig = 1]
              /\ d' = [d EXCEPT !.state = st, !.machine_sets = ms,
                                !.kubernetes_version = "1.24",
                                !.kubeconfig = IF kube = "ok" THEN TRUE ELSE @]
              /\ Return(IF kube = "ok" THEN "ok" ELSE "kubeconfigErr")
  /\ UNCHANGED << cluster, conf, poll, sent, tainted, trace, rec, bp, pair >>

\* The value of kubernetes_version in the ResourceData the host hands to
\* clusterUpdateContext: the declared one ("" when none is declared), the
\* stored one being a projection of the backend's.
PlannedKubernetesVersion(declared, stored) == declared

\* Mutant: a declared Kubernetes version alone does not lead to an update call.
NeedsUpdateCall_WorkersOnly(hasChange, k8sVersionPresent) == hasChange

\* The condition of clusterUpdateContext for the update call.
NeedsUpdateCall(hasChange, k8sVersionPresent) == hasChange \/ k8sVersionPresent

\* clusterUpdateContext up to its wait: when worker_nodes changed or
\* kubernetes_version is present, the defaults of default_machine_sets are
\* merged with the declared sets and sent in an update call.
Update(wn, kv, pre, call) ==
  /\ pc = "idle" /\ d.id # "" /\ ~tainted
  /\ op' = "update"
  /\ idBefore' = d.id
  /\ trace' = << >>
  /\ LET d1 == [d EXCEPT !.worker_nodes = wn,
                         !.kubernetes_version = PlannedKubernetesVersion(kv, @)]
         HasChange == wn # d.worker_nodes
         k8sVersionPresent == GetOk(d1, "kubernetes_version")
         dwn == GetDefaultWorkersName(d1.default_machine_sets_detail)
     IN  /\ d' = d1
         /\ IF pre # "ok"
              THEN /\ Return(pre)
                   /\ calls' = [NoCalls EXCEPT !.token = Tokens(pre)]
                   /\ UNCHANGED << conf, poll, sent >>
            ELSE IF NeedsUpdateCall(HasChange, k8sVersionPresent)
              THEN IF dwn.err # "nil"
                     THEN /\ Return(dwn.err)
                          /\ calls' = [NoCalls EXCEPT !.token = 1]
                          /\ UNCHANGED << conf, poll, sent >>
                     ELSE /\ Put(UpdateMerge(wn, d1.default_machine_sets, d1.machine_sets,
                                            dwn.names),
                                 call, updateStateConf, d1.id,
                                 [NoCalls EXCEPT !.token = 1])
            ELSE /\ pc' = "read"
                 /\ calls' = [NoCalls EXCEPT !.token = 1]
                 /\ UNCHANGED << conf, poll, sent, diags >>
  /\ UNCHANGED << cluster, tainted, rec, bp, pair >>

\* clusterDeleteContext up to its wait: the token, the delete call and
\* deleteStateConf.
Delete(pre, call) ==
  /\ pc = "idle" /\ d.id # ""
  /\ op' = "delete"
  /\ idBefore' = d.id
  /\ trace' = << >>
  /\ IF pre # "ok"
       THEN /\ Return(pre)
            /\ calls' = [NoCalls EXCEPT !.token = Tokens(pre)]
            /\ UNCHANGED << conf, poll >>
       ELSE /\ calls' = [NoCalls EXCEPT !.token = 1, !.delete = 1]
            /\ IF call = "ok"
                 THEN /\ conf' = deleteStateConf
                      /\ poll' = StartPoll(deleteStateConf, d.id)
                      /\ pc' = "poll"
                      /\ diags' = "none"
                 ELSE /\ Return("deleteErr")
                      /\ UNCHANGED << conf, poll >>
  /\ UNCHANGED << d, cluster, sent, tainted, rec, bp, pair >>

\* The host takes the handler's result: a resource with no id is not kept in
\* the state, and a resource whose Create failed with the id set is tainted.
HostReturn ==
  /\ pc = "done"
  /\ pc' = "idle"
  /\ op' = "none"
  /\ d' = IF d.id = "" THEN EmptyD ELSE d
  /\ tainted' = IF d.id = "" THEN FALSE
                ELSE IF op = "create" /\ diags # "ok" THEN TRUE ELSE tainted
  /\ cluster' = NoCluster
  /\ conf' = NoConf
  /\ poll' = NoPoll
  /\ diags' = "none"
  /\ calls' = NoCalls
  /\ idBefore' = ""
  /\ sent' = << >>
  /\ trace' = << >>
  /\ UNCHANGED << rec, bp, pair >>

Next ==
  \/ \E wn \in WorkerNodesConfigs, kv \in KubernetesVersions, pre \in PreResults,
        call \in CallResults, cl \in BackendClusters : Create(wn, kv, pre, call, cl)
  \/ \E resp \in Responses : PollAttempt(resp)
  \/ Tick
  \/ PollTimeout
  \/ \E call \in CallResults : CreateFollowUp(call)
  \/ \E pre \in PreResults, get \in {"ok", "err"}, st \in RemoteStates,
        ms \in RemoteMachineSets, kube \in {"ok", "err"} : Read(pre, get, st, ms, kube)
  \/ \E pre \in PreResults, get \in {"ok", "err"}, st \in RemoteStates,
        ms \in RemoteMachineSets, kube \in {"ok", "err"} : Refresh(pre, get, st, ms, kube)
  \/ \E wn \in WorkerNodesConfigs, kv \in KubernetesVersions, pre \in PreResults,
        call \in CallResults : Update(wn, kv, pre, call)
  \/ \E pre \in PreResults, call \in CallResults : Delete(pre, call)
  \/ HostReturn

Spec == Init /\ [][Next]_vars

----------------------------------------------------------------------------
\* The same handlers with every call but the list query succeeding, and the
\* inputs of the attempts of each wait recorded in trace.

SeqResponses ==
  { Resp("http", StatusInternalServerError, ""), Resp("http", StatusGatewayTimeout, ""),
    Resp("http", StatusUnauthorized, ""), Resp("netTimeout", 0, ""),
    Resp("netErr", 0, ""), Resp("tokenErr", 0, ""), Resp("absent", 200, ""),
    Resp("found", 200, stateCreating), Resp("found", 200, stateReady),
    Resp("found", 200, stateDeleting), Resp("found", 200, stateDeleted) }

StdCluster ==
  [ Id |-> ClusterId,
    MachineSets |-> << MS("cp", 1, "v1"), MS("w1", 2, "v1") >>,
    MachineSetsDetail |-> << MSD("cp", << "controlplane" >>), MSD("w1", << "worker" >>) >> ]

InitSeq ==
  /\ d = EmptyD
  /\ op = "none"
  /\ pc = "idle"
  /\ cluster = NoCluster
  /\ conf = NoConf
  /\ poll = NoPoll
  /\ diags = "none"
  /\ calls = NoCalls
  /\ idBefore = ""
  /\ sent = << >>
  /\ tainted = FALSE
  /\ trace = << >>
  /\ rec = TRUE
  /\ bp = NoBlueprint
  /\ pair = NoPair

NextSeq ==
  \/ \E wn \in {<< >>, << MS("w1", 3, "v1") >>} : Create(wn, "", "ok", "ok", StdCluster)
  \/ \E resp \in SeqResponses : PollAttempt(resp)
  \/ PollTimeout
  \/ CreateFollowUp("ok")
  \/ Read("ok", "ok", stateReady, StdCluster.MachineSets, "ok")
  \/ \E wn \in {<< >>, << MS("w1", 3, "v1") >>} : Update(wn, "", "ok", "ok")
  \/ Delete("ok", "ok")
  \/ HostReturn

SpecSeq == InitSeq /\ [][NextSeq]_vars

----------------------------------------------------------------------------
\* The two handlers that merge, started from every state in which they merge:
\* clusterCreateContext after its first wait returned, and
\* clusterUpdateContext on a cluster that was created and read, for all
\* default machine sets and declared worker_nodes within the bounds.

MergeNames == { "cp", "w1", "w2" }
MergeRoles == { << "controlplane" >>, << "worker" >> }

\* Default machine sets have distinct names, and one detail entry each.
MergeClusters ==
  { [ Id |-> ClusterId,
      MachineSets |-> [i \in 1 .. n |-> MS(names[i], i, "v1")],
      MachineSetsDetail |-> [i \in 1 .. n |-> MSD(names[i], roles[i])] ] :
      <<n, names, roles>> \in
        UNION { { <<m, nm, rl>> :
                    nm \in { f \in [1 .. m -> MergeNames] :
                               \A i, j \in 1 .. m : i # j => f[i] # f[j] },
                    rl \in [1 .. m -> MergeRoles] } : m \in 1 .. MaxDefaults } }

DeclaredLists ==
  UNION { [1 .. n -> { MS(nm, 3, "v1") : nm \in MergeNames }] : n \in 0 .. MaxDeclared }

\* The machine sets the last read stored: the defaults, the version of their
\* OS image possibly newer.
ReadOf(machineSets, v) ==
  [i \in DOMAIN machineSets |-> [machineSets[i] EXCEPT !.os_version = v]]

InitMerge ==
  /\ cluster \in MergeClusters \cup { NoCluster }
  /\ IF cluster # NoCluster
       THEN \* clusterCreateContext, its first wait has returned success
            /\ op = "create"
            /\ pc = "setid"
            /\ \E wn \in DeclaredLists : d = [EmptyD EXCEPT !.worker_nodes = wn]
            /\ conf = createStateConf
            /\ poll = [ status |-> "success", attempts |-> 1, clock |-> 0,
                        errRetryCount |-> 0, noEntryInListRetryCount |-> 0,
                        resp |-> Resp("found", 200, stateReady), state |-> stateReady,
                        idAtStart |-> "", listToken |-> 2 ]
            /\ calls = [NoCalls EXCEPT !.post = 1, !.token = 2, !.list = 1]
       ELSE \* a cluster that was created with no worker_nodes, and read
            /\ op = "none"
            /\ pc = "idle"
            /\ \E cl \in MergeClusters, v \in {"v1", "v2"} :
                 d = [ id |-> cl.Id, worker_nodes |-> << >>, kubernetes_version |-> "1.24",
                       default_machine_sets |-> cl.MachineSets,
                       default_machine_sets_detail |-> cl.MachineSetsDetail,
                       machine_sets |-> ReadOf(cl.MachineSets, v),
                       state |-> stateReady, kubeconfig |-> TRUE ]
            /\ conf = NoConf
            /\ poll = NoPoll
            /\ calls = NoCalls
  /\ diags = "none"
  /\ idBefore = ""
  /\ sent = << >>
  /\ tainted = FALSE
  /\ trace = << >>
  /\ rec = FALSE
  /\ bp = NoBlueprint
  /\ pair = NoPair

NextMerge ==
  \/ CreateFollowUp("ok")
  \/ \E wn \in DeclaredLists, kv \in KubernetesVersions : Update(wn, kv, "ok", "ok")

SpecMerge == InitMerge /\ [][NextMerge]_vars

----------------------------------------------------------------------------
\* The machine blueprint and cluster blueprint resources: Create (the create
\* call, then Read), Read and Delete, against a backend that lists the
\* blueprints it holds.  There is no Update and no wait.

\* The number of blueprints the backend is asked to create.
MaxBlueprints == 3

BlueprintKinds == { "machine", "cluster" }

\* The id the backend gives to the n-th blueprint it creates, and the id of a
\* blueprint that is not managed by this resource.
BlueprintId(n) == << "b1", "b2", "b3", "b4", "b5" >>[n]
ForeignBlueprint == "b0"

\* The variables of the cluster resource.
clusterVars ==
  << d, op, pc, cluster, conf, poll, diags, calls, idBefore, sent, tainted, trace, rec,
     pair >>

\* A blueprint handler starts: b is the resource as the host hands it over.
BlueprintStart(b, o) ==
  [b EXCEPT !.op = o, !.pc = "done", !.diags = "none", !.idBefore = b.id,
            !.calls = NoBlueprintCalls]

machineBlueprintReadContext(b, pre, get) ==
  IF pre # "ok"
    THEN [b EXCEPT !.diags = pre, !.calls.token = @ + Tokens(pre)]
  ELSE IF get # "ok"
    THEN [b EXCEPT !.diags = "getErr", !.calls.token = @ + 1, !.calls.get = @ + 1]
  ELSE [b EXCEPT !.diags = "ok", !.calls.token = @ + 1, !.calls.get = @ + 1]

\* clusterBlueprintReadContext gets the client and a token, and nothing else.
clusterBlueprintReadContext(b, pre) ==
  IF pre # "ok"
    THEN [b EXCEPT !.diags = pre, !.calls.token = @ + Tokens(pre)]
    ELSE [b EXCEPT !.diags = "ok", !.calls.token = @ + 1]

\* The create call succeeded: the backend holds a new blueprint, and the
\* handler sets its id.
BlueprintPosted(b) ==
  [b EXCEPT !.calls.token = 1, !.calls.post = 1,
            !.id = BlueprintId(b.next),
            !.remote = @ \cup { BlueprintId(b.next) },
            !.next = @ + 1]

\* The create call failed: utils.GetErrorMessage(err, resp.StatusCode) reads
\* the status code of a nil response when there is no response.
BlueprintPostFailed(b, call) ==
  [b EXCEPT !.calls.token = 1, !.calls.post = 1,
            !.pc = IF call = "netErr" THEN "crash" ELSE "done",
            !.diags = IF call = "netErr" THEN "panic" ELSE "postErr"]

machineBlueprintCreateContext(b, pre, call, readPre, get) ==
  IF pre # "ok"
    THEN [b EXCEPT !.diags = pre, !.calls.token = Tokens(pre)]
  ELSE IF call # "ok"
    THEN BlueprintPostFailed(b, call)
  ELSE machineBlueprintReadContext(BlueprintPosted(b), readPre, get)

clusterBlueprintCreateContext(b, pre, call, readPre) ==
  IF pre # "ok"
    THEN [b EXCEPT !.diags = pre, !.calls.token = Tokens(pre)]
  ELSE IF call # "ok"
    THEN BlueprintPostFailed(b, call)
  ELSE clusterBlueprintReadContext(BlueprintPosted(b), readPre)

\* Mutant: the id is cleared before the error of the delete call is looked at.
machineBlueprintDeleteContext_ClearsIdFirst(b, pre, call) ==
  IF pre # "ok"
    THEN [b EXCEPT !.diags = pre, !.calls.token = Tokens(pre)]
  ELSE IF call # "ok"
    THEN [b EXCEPT !.diags = "deleteErr", !.id = "",
                   !.calls.token = 1, !.calls.delete = 1]
  ELSE [b EXCEPT !.diags = "ok", !.calls.token = 1, !.calls.delete = 1,
                 !.remote = @ \ { b.id }, !.id = ""]

\* The delete call that returns without error has removed the blueprint from
\* the backend; the handler then clears the id.
machineBlueprintDeleteContext(b, pre, call) ==
  IF pre # "ok"
    THEN [b EXCEPT !.diags = pre, !.calls.token = Tokens(pre)]
  ELSE IF call # "ok"
    THEN [b EXCEPT !.diags = "deleteErr", !.calls.token = 1, !.calls.delete = 1]
  ELSE [b EXCEPT !.diags = "ok", !.calls.token = 1, !.calls.delete = 1,
                 !.remote = @ \ { b.id }, !.id = ""]

clusterBlueprintDeleteContext(b, pre, call) ==
  IF pre # "ok"
    THEN [b EXCEPT !.diags = pre, !.calls.token = Tokens(pre)]
  ELSE IF call # "ok"
    THEN [b EXCEPT !.diags = "deleteErr", !.calls.token = 1, !.calls.delete = 1]
  ELSE [b EXCEPT !.diags = "ok", !.calls.token = 1, !.calls.delete = 1,
                 !.remote = @ \ { b.id }, !.id = ""]

BlueprintCreate(pre, call, readPre, get) ==
  /\ bp.pc = "idle" /\ bp.id = "" /\ bp.next <= MaxBlueprints
  /\ bp' = IF bp.kind = "machine"
             THEN machineBlueprintCreateContext(BlueprintStart(bp, "create"),
                                                pre, call, readPre, get)
             ELSE clusterBlueprintCreateContext(BlueprintStart(bp, "create"),
                                                pre, call, readPre)
  /\ UNCHANGED clusterVars

\* The host refreshes the blueprint.
BlueprintRead(pre, get) ==
  /\ bp.pc = "idle" /\ bp.id # ""
  /\ bp' = IF bp.kind = "machine"
             THEN machineBlueprintReadContext(BlueprintStart(bp, "read"), pre, get)
             ELSE clusterBlueprintReadContext(BlueprintStart(bp, "read"), pre)
  /\ UNCHANGED clusterVars

BlueprintDelete(pre, call) ==
  /\ bp.pc = "idle" /\ bp.id # ""
  /\ bp' = IF bp.kind = "machine"
             THEN machineBlueprintDeleteContext(BlueprintStart(bp, "delete"), pre, call)
             ELSE clusterBlueprintDeleteContext(BlueprintStart(bp, "delete"), pre, call)
  /\ UNCHANGED clusterVars

\* The host takes the handler's result: a resource with no id is not kept in
\* the state, and a resource whose Create failed with the id set is tainted.
BlueprintHostReturn ==
  /\ bp.pc = "done"
  /\ bp' = [bp EXCEPT !.pc = "idle", !.op = "none", !.diags = "none",
                      !.calls = NoBlueprintCalls, !.idBefore = "",
                      !.tainted = IF bp.id = "" THEN FALSE
                                  ELSE IF bp.op = "create" /\ bp.diags # "ok" THEN TRUE
                                  ELSE @]
  /\ UNCHANGED clusterVars

InitBlueprint ==
  /\ d = EmptyD
  /\ op = "none"
  /\ pc = "idle"
  /\ cluster = NoCluster
  /\ conf = NoConf
  /\ poll = NoPoll
  /\ diags = "none"
  /\ calls = NoCalls
  /\ idBefore = ""
  /\ sent = << >>
  /\ tainted = FALSE
  /\ trace = << >>
  /\ rec = FALSE
  /\ pair = NoPair
  /\ \E k \in BlueprintKinds, r \in { {}, { ForeignBlueprint } } :
       bp = [NoBlueprint EXCEPT !.kind = k, !.remote = r]

NextBlueprint ==
  \/ \E pre \in PreResults, call \in CallResults, readPre \in PreResults,
        get \in {"ok", "err"} : BlueprintCreate(pre, call, readPre, get)
  \/ \E pre \in PreResults, get \in {"ok", "err"} : BlueprintRead(pre, get)
  \/ \E pre \in PreResults, call \in {"ok", "err"} : BlueprintDelete(pre, call)
  \/ BlueprintHostReturn

SpecBlueprint == InitBlueprint /\ [][NextBlueprint]_vars

----------------------------------------------------------------------------
\* The waits under fair scheduling: the goroutine of WaitForStateContext makes
\* its next attempt when its sleep ends, and the timer of conf.Timeout fires.
\* Every other call succeeds, and the inputs of the attempts are recorded.

LiveResponses ==
  { Resp("http", StatusInternalServerError, ""), Resp("http", StatusUnauthorized, ""),
    Resp("absent", 200, ""),
    Resp("found", 200, stateCreating), Resp("found", 200, stateUpdating),
    Resp("found", 200, stateDeleting), Resp("found", 200, stateReady),
    Resp("found", 200, stateDeleted) }

NextLive ==
  \/ \E wn \in {<< >>, << MS("w1", 3, "v1") >>} : Create(wn, "", "ok", "ok", StdCluster)
  \/ \E resp \in LiveResponses : PollAttempt(resp)
  \/ Tick
  \/ PollTimeout
  \/ CreateFollowUp("ok")
  \/ Read("ok", "ok", stateReady, StdCluster.MachineSets, "ok")
  \/ \E wn \in {<< >>, << MS("w1", 3, "v1") >>} : Update(wn, "", "ok", "ok")
  \/ Delete("ok", "ok")
  \/ HostReturn

SpecLive ==
  /\ InitSeq
  /\ [][NextLive]_vars
  /\ WF_vars(\E resp \in LiveResponses : PollAttempt(resp))
  /\ WF_vars(PollTimeout)

----------------------------------------------------------------------------
\* Two handlers that run at the same time.  The host applies independent
\* resources in parallel: each handler calls clusterRefresh, which calls
\* createGetTokenFunc, whose two counters are local variables of that call,
\* captured by the closure it returns.

\* The attempts of one wait that are followed.
MaxPairAttempts == 3

PairResponses ==
  { Resp("http", StatusInternalServerError, ""), Resp("absent", 200, ""),
    Resp("found", 200, stateCreating), Resp("found", 200, stateReady) }

\* Mutant: the counters are variables of the package, shared by every closure.
CounterOwner_Global(r) == "r1"

\* The closure whose counters an execution of the refresh function of handler
\* r reads and writes: the one createGetTokenFunc made for r's wait.
CounterOwner(r) == r

\* Handler r starts a wait: one of the waits that follow a create, update or
\* delete call, or the second wait of clusterCreateContext after its first
\* returned success.
PairStart(r, c) ==
  /\ \/ pair[r].conf.row = "none" /\ c.row \in {"create", "update", "delete"}
     \/ pair[r].conf.row = "create" /\ pair[r].poll.status = "success"
          /\ c.row = "create_update"
  /\ pair' = [pair EXCEPT ![r] = [ conf |-> c,
                                   poll |-> StartPoll(c, IF c.row = "create" THEN "" ELSE r),
                                   trace |-> << >> ]]
  /\ UNCHANGED << d, op, pc, cluster, conf, poll, diags, calls, idBefore, sent, tainted,
                  trace, rec, bp >>

\* One execution of the refresh closure of handler r's wait.
PairAttempt(r, resp) ==
  /\ pair[r].poll.status \in {"polling", "pending"}
  /\ pair[r].poll.attempts < MaxPairAttempts
  /\ LET o == CounterOwner(r)
         res == getTokenFunc(pair[o].poll.errRetryCount,
                             pair[o].poll.noEntryInListRetryCount,
                             pair[r].conf.expected, resp)
         step == WaitStep(pair[r].conf.pending, pair[r].conf.target, res)
         counted == [pair EXCEPT ![o].poll.errRetryCount = res.errRetryCount,
                                 ![o].poll.noEntryInListRetryCount =
                                    res.noEntryInListRetryCount]
     IN  pair' = [counted EXCEPT ![r].poll.status = step,
                                 ![r].poll.attempts = @ + 1,
                                 ![r].poll.resp = resp,
                                 ![r].poll.state = res.state,
                                 ![r].trace = Append(@, resp)]
  /\ UNCHANGED << d, op, pc, cluster, conf, poll, diags, calls, idBefore, sent, tainted,
                  trace, rec, bp >>

\* The timeout of handler r's wait elapses.
PairTimeout(r) ==
  /\ pair[r].poll.status \in {"polling", "pending"}
  /\ pair[r].poll.attempts = MaxPairAttempts
  /\ pair' = [pair EXCEPT ![r].poll.status = "timeout"]
  /\ UNCHANGED << d, op, pc, cluster, conf, poll, diags, calls, idBefore, sent, tainted,
                  trace, rec, bp >>

\* Handler r returns after its wait ended.
PairReturn(r) ==
  /\ pair[r].poll.status \in {"success", "error", "unexpected", "timeout"}
  /\ pair' = [pair EXCEPT ![r] = NoWait]
  /\ UNCHANGED << d, op, pc, cluster, conf, poll, diags, calls, idBefore, sent, tainted,
                  trace, rec, bp >>

NextPair ==
  \/ \E r \in Reconcilers,
        c \in {createStateConf, createUpdateStateConf, updateStateConf, deleteStateConf} :
        PairStart(r, c)
  \/ \E r \in Reconcilers, resp \in PairResponses : PairAttempt(r, resp)
  \/ \E r \in Reconcilers : PairTimeout(r)
  \/ \E r \in Reconcilers : PairReturn(r)

SpecPair == InitSeq /\ [][NextPair]_vars

----------------------------------------------------------------------------
\* Properties.

Polling == poll.status \in {"polling", "pending"}

\* The attempt's list query succeeded and found the tracked cluster in a state
\* of the running wait's pending set / target set.
PendingObs(resp) == resp.kind = "found" /\ resp.state \in conf.pending
TargetObs(resp) == resp.kind = "found" /\ resp.state \in conf.target

Is500(resp) == resp.kind = "http" /\ resp.status = StatusInternalServerError
IsAbsent(resp) == resp.kind = "absent"

\* C1: in clusterDeleteContext the id is cleared only when the wait confirmed
\* the deletion (the last attempt found the cluster in state deleted, or a
\* successful list query did not hold it); on every other path the id is the
\* one Delete started with.
C1_DeleteClearsIdOnlyWhenConfirmed ==
  op = "delete" =>
    IF poll.status = "success"
      THEN /\ d.id = ""
           /\ pc = "done" /\ diags = "ok"
           /\ \/ poll.resp = Resp("found", 200, stateDeleted)
              \/ poll.resp = Resp("absent", 200, "")
      ELSE d.id = idBefore /\ d.id # ""

C1_Witness ==
  /\ op = "delete" /\ pc = "done" /\ d.id = "" /\ idBefore = ClusterId
  /\ poll.resp.kind = "absent"

\* C2: when the attempts 1..N-1 of a wait each find the cluster in a pending
\* state and attempt N finds it in the target state, the wait returns success
\* at attempt N: it is still running after each of the first N-1 attempts
\* (unless the timeout ended it), and after attempt N it has stopped with N
\* attempts made.
C2_SuccessAfterExactlyN ==
  (rec /\ poll.status # "none" /\ trace # << >>
       /\ \A i \in 1 .. Len(trace) - 1 : PendingObs(trace[i])) =>
    /\ poll.attempts = Len(trace)
    /\ PendingObs(trace[Len(trace)]) =>
         (poll.status \in {"pending", "timeout"} /\ (poll.status = "pending" => pc = "poll"))
    /\ TargetObs(trace[Len(trace)]) => (poll.status = "success" /\ pc # "poll")

C2_Witness ==
  /\ rec /\ Len(trace) = 3 /\ poll.status = "success" /\ poll.attempts = 3
  /\ PendingObs(trace[1]) /\ PendingObs(trace[2]) /\ TargetObs(trace[3])

\* C3: an attempt that finds the cluster in a state that is neither pending
\* nor target for the running wait ends the wait at that attempt, and the
\* handler returns an unexpected-state error.
C3_UnexpectedStateIsFatal ==
  (poll.attempts >= 1 /\ poll.resp.kind = "found"
     /\ poll.resp.state \notin (conf.pending \cup conf.target)) =>
    /\ poll.status = "unexpected"
    /\ pc = "done"
    /\ diags = "unexpectedState"

C3_Witness ==
  /\ conf.row = "delete" /\ poll.attempts = 2
  /\ poll.resp = Resp("found", 200, stateReady)
  /\ diags = "unexpectedState"

\* The number of status-500 responses among the attempts of the running wait.
Count500 == Cardinality({ i \in DOMAIN trace : Is500(trace[i]) })

\* C4: when the list query of a wait returned status 500 fewer than 3 times
\* and every other attempt found the cluster in a pending state, no error has
\* been returned to the host and the wait is still running (or timed out);
\* when the last attempt then finds the cluster in the target state the wait
\* returns success.
C4_FewerThanThree500Absorbed ==
  (rec /\ poll.status # "none" /\ trace # << >> /\ Count500 < retryLimit
       /\ \A i \in 1 .. Len(trace) - 1 : Is500(trace[i]) \/ PendingObs(trace[i])) =>
    /\ (Is500(trace[Len(trace)]) \/ PendingObs(trace[Len(trace)])) =>
         (poll.status \in {"pending", "timeout"} /\ diags \in {"none", "timeout"})
    /\ TargetObs(trace[Len(trace)]) =>
         (poll.status = "success" /\ diags \in {"none", "ok"})

C4_Witness ==
  /\ rec /\ Len(trace) = 4 /\ Count500 = 2 /\ TargetObs(trace[4])
  /\ PendingObs(trace[3])
  /\ poll.status = "success"

\* C5: when the list query returns status 500 on 3 consecutive attempts of a
\* wait, the third of them is the last attempt: the wait has failed, the
\* handler has returned the error, and the id is the one the wait started
\* with (not empty in Update, Delete and the second wait of Create).
C5_Three500Fail ==
  \A i \in 1 .. Len(trace) - 2 :
    (rec /\ Is500(trace[i]) /\ Is500(trace[i + 1]) /\ Is500(trace[i + 2])) =>
      /\ Len(trace) = i + 2
      /\ poll.status = "error" /\ pc = "done" /\ diags = "http"
      /\ d.id = poll.idAtStart
      /\ conf.row # "create" => d.id # ""

C5_Witness ==
  /\ rec /\ Len(trace) = 3 /\ \A i \in 1 .. 3 : Is500(trace[i])
  /\ conf.row = "update" /\ diags = "http" /\ d.id = ClusterId

\* C6: in the wait of Delete a successful list query that does not hold the
\* cluster ends the wait with success at that attempt, the first included;
\* noEntryInListRetryCount stays 0 and the wait never fails with the
\* not-found error.
C6_DeleteAbsentIsDeleted ==
  conf.row = "delete" =>
    /\ poll.noEntryInListRetryCount = 0
    /\ diags # "notfound"
    /\ (poll.attempts >= 1 /\ IsAbsent(poll.resp)) =>
         /\ poll.state = stateDeleted
         /\ poll.status = "success"
         /\ diags = "ok" /\ d.id = ""

C6_Witness ==
  /\ conf.row = "delete" /\ poll.attempts = 1 /\ IsAbsent(poll.resp)
  /\ poll.status = "success" /\ diags = "ok"

\* C7: in a wait for ready, each of the first 3 successive absences of the
\* cluster from a successful list query yields retrying; when the 4th attempt
\* finds the cluster ready the wait returns success at that attempt, and when
\* the 4th attempt is an absence too the wait fails there with the not-found
\* error.
C7_AbsentThreeThenReady ==
  (rec /\ conf.expected = stateReady /\ trace # << >>
       /\ \A i \in 1 .. Len(trace) - 1 : i <= retryLimit /\ IsAbsent(trace[i])) =>
    LET n == Len(trace)
    IN  /\ (n <= retryLimit /\ IsAbsent(trace[n])) =>
             /\ poll.state = stateRetrying
             /\ poll.noEntryInListRetryCount = n
             /\ poll.status \in {"pending", "timeout"}
        /\ (n = retryLimit + 1 /\ trace[n] = Resp("found", 200, stateReady)) =>
             (poll.status = "success" /\ poll.attempts = retryLimit + 1)
        /\ (n = retryLimit + 1 /\ IsAbsent(trace[n])) =>
             (poll.status = "error" /\ diags = "notfound" /\ pc = "done"
                /\ poll.attempts = retryLimit + 1)

C7_Witness ==
  /\ rec /\ Len(trace) = 4 /\ \A i \in 1 .. 4 : IsAbsent(trace[i])
  /\ diags = "notfound"

C7_WitnessReady ==
  /\ rec /\ Len(trace) = 4 /\ \A i \in 1 .. 3 : IsAbsent(trace[i])
  /\ trace[4] = Resp("found", 200, stateReady) /\ poll.status = "success"

\* C8: when the timeout of a wait elapses, the handler returns a timeout
\* error and the id is the one the wait started with.
C8_TimeoutKeepsId ==
  poll.status = "timeout" =>
    /\ pc = "done" /\ diags = "timeout"
    /\ d.id = poll.idAtStart
    /\ conf.row # "create" => d.id # ""

C8_Witness ==
  /\ poll.status = "timeout" /\ conf.row = "delete" /\ d.id = ClusterId
  /\ poll.attempts >= 1

\* C9: clusterCreateContext sends an update call (followed by a second wait)
\* exactly when the configuration declares worker_nodes or a Kubernetes
\* version; when neither is declared it has made the create call and no
\* update call, has set the id and the default machine sets, and goes on with
\* the read.  Stated of the handler once its first wait returned success and
\* before its read; the error of GetDefaultWorkersName is left aside.
C9_FollowUpIffDeclared ==
  (op = "create" /\ d.id # "" /\ calls.get = 0 /\ diags # "noworker"
     /\ pc \in {"poll", "read"}) =>
    /\ calls.post = 1
    /\ d.id = cluster.Id
    /\ d.default_machine_sets = cluster.MachineSets
    /\ IF d.worker_nodes # << >> \/ d.kubernetes_version # ""
         THEN calls.put = 1 /\ pc = "poll" /\ conf.row = "create_update"
         ELSE calls.put = 0 /\ pc = "read"

\* The number of machine sets named n in a list.
CountName(machineSets, n) ==
  Cardinality({ i \in DOMAIN machineSets : machineSets[i].name = n })

\* C10: the machine sets sent in an update call hold no default machine set
\* whose name is the name of a declared one (the sets of that name are the
\* declared ones), and hold every default machine set whose name is not
\* declared.
C10_DeclaredNamesReplaceDefaults ==
  (calls.put = 1 /\ pc = "poll") =>
    \A i \in DOMAIN d.default_machine_sets :
      LET n == d.default_machine_sets[i].name
      IN  IF WorkerPresentInMachineSets(d.worker_nodes, n)
            THEN CountName(sent, n) = CountName(d.worker_nodes, n)
            ELSE CountName(sent, n) = 1

\* What the code does (not a claim of its own): only a default with role
\* worker is replaced by a declared set of its name.
MergeReplacesDeclaredWorkersOnly ==
  (calls.put = 1 /\ pc = "poll") =>
    \A i \in DOMAIN d.default_machine_sets :
      LET n == d.default_machine_sets[i].name
          isWorker == \E j \in DOMAIN d.default_machine_sets_detail :
                        /\ d.default_machine_sets_detail[j].name = n
                        /\ d.default_machine_sets_detail[j].machine_roles = << "worker" >>
      IN  IF WorkerPresentInMachineSets(d.worker_nodes, n) /\ isWorker
            THEN CountName(sent, n) = CountName(d.worker_nodes, n)
            ELSE CountName(sent, n) = 1 + CountName(d.worker_nodes, n)

\* The names of a list of machine sets, and the set of elements of a list.
Names(machineSets) == [i \in DOMAIN machineSets |-> machineSets[i].name]
Range(s) == { s[i] : i \in DOMAIN s }

DistinctNames(machineSets) ==
  \A i, j \in DOMAIN machineSets :
    i # j => machineSets[i].name # machineSets[j].name

\* C11: the machine sets sent in an update call of clusterCreateContext or
\* clusterUpdateContext have pairwise distinct names, whatever the default
\* machine sets and the declared worker_nodes (of distinct names) are, a
\* declared name equal to the name of a default that is not a worker included.
C11_MergedNamesUnique ==
  (calls.put = 1 /\ pc = "poll" /\ DistinctNames(d.worker_nodes)) =>
    DistinctNames(sent)

\* sub lists elements of full (whose elements are distinct) in the order of full.
IsOrderedSubSeq(sub, full) ==
  sub = SelectSeq(full, LAMBDA n : n \in Range(sub))

\* C12 as the handlers compute it: in the machine sets of an update call the
\* remaining defaults come before the declared sets in clusterCreateContext
\* and after them in clusterUpdateContext; the declared sets are sent as
\* declared and the remaining defaults keep the order of default_machine_sets.
C12_DefaultsFirstOnCreateLastOnUpdate ==
  (calls.put = 1 /\ pc = "poll") =>
    LET k == Len(d.worker_nodes)
        n == Len(sent)
        dn == Names(d.default_machine_sets)
    IN  /\ n >= k
        /\ IF op = "create"
             THEN /\ SubSeq(sent, n - k + 1, n) = d.worker_nodes
                  /\ IsOrderedSubSeq(Names(SubSeq(sent, 1, n - k)), dn)
             ELSE /\ SubSeq(sent, 1, k) = d.worker_nodes
                  /\ IsOrderedSubSeq(Names(SubSeq(sent, k + 1, n)), dn)

C12_Witness ==
  /\ calls.put = 1 /\ pc = "poll" /\ op = "create"
  /\ Len(d.worker_nodes) = 2 /\ Len(sent) = 3
  /\ sent[1].name = d.default_machine_sets[1].name
  /\ sent[1].name \notin Range(Names(d.worker_nodes))

\* C12 as stated: the remaining defaults come after the declared sets in
\* clusterCreateContext and before them in clusterUpdateContext.
C12_DefaultsAfterOnCreateBeforeOnUpdate ==
  (calls.put = 1 /\ pc = "poll") =>
    LET k == Len(d.worker_nodes)
        n == Len(sent)
        dn == Names(d.default_machine_sets)
    IN  /\ n >= k
        /\ IF op = "create"
             THEN /\ SubSeq(sent, 1, k) = d.worker_nodes
                  /\ IsOrderedSubSeq(Names(SubSeq(sent, k + 1, n)), dn)
             ELSE /\ SubSeq(sent, n - k + 1, n) = d.worker_nodes
                  /\ IsOrderedSubSeq(Names(SubSeq(sent, 1, n - k)), dn)

\* The machine set named n in default_machine_sets is a default worker.
IsDefaultWorker(n) == n \in Range(WorkerNames(d.default_machine_sets_detail))

\* C13 as the handlers compute it: with no worker_nodes declared, the machine
\* sets of an update call are the defaults in their order, each with its
\* name, blueprint id and count; clusterCreateContext's merge leaves the OS
\* image and version too, while in clusterUpdateContext a default worker is
\* sent with the OS image and version of the machine set of its name in
\* machine_sets (the last read) and every other default with its own.
C13_EmptyDeclaredKeepsDefaultsButWorkerOs ==
  /\ (op = "create" /\ cluster # NoCluster) =>
       CreateMerge(<< >>, cluster.MachineSets,
                   WorkerNames(cluster.MachineSetsDetail)) = cluster.MachineSets
  /\ (calls.put = 1 /\ pc = "poll" /\ d.worker_nodes = << >>) =>
       /\ op = "update"
       /\ Len(sent) = Len(d.default_machine_sets)
       /\ \A i \in DOMAIN sent :
            LET dms == d.default_machine_sets[i]
            IN  /\ sent[i].name = dms.name
                /\ sent[i].machine_blueprint_id = dms.machine_blueprint_id
                /\ sent[i].count = dms.count
                /\ IF IsDefaultWorker(dms.name)
                     THEN \E j \in DOMAIN d.machine_sets :
                            /\ d.machine_sets[j].name = dms.name
                            /\ d.machine_sets[j].os_image = sent[i].os_image
                            /\ d.machine_sets[j].os_version = sent[i].os_version
                     ELSE /\ sent[i].os_image = dms.os_image
                          /\ sent[i].os_version = dms.os_version

C13_Witness ==
  /\ op = "update" /\ calls.put = 1 /\ pc = "poll" /\ d.worker_nodes = << >>
  /\ Len(sent) = 2
  /\ IsDefaultWorker(sent[2].name) /\ ~IsDefaultWorker(sent[1].name)
  /\ sent[2].os_version = "v2" /\ d.default_machine_sets[2].os_version = "v1"
  /\ sent[1] = d.default_machine_sets[1]

\* C13 as stated: with no worker_nodes declared, the machine sets of an
\* update call are exactly the defaults, all fields included.
C13_EmptyDeclaredYieldsDefaults ==
  (calls.put = 1 /\ pc = "poll" /\ d.worker_nodes = << >>) =>
    sent = d.default_machine_sets

\* No entry of default_machine_sets_detail has role worker.
NoDefaultWorker(data) ==
  \A i \in DOMAIN data.default_machine_sets_detail :
    "worker" \notin Range(data.default_machine_sets_detail[i].machine_roles)

\* The step is clusterCreateContext going on after its first wait with
\* worker_nodes declared, or clusterUpdateContext starting (its token
\* obtained) with worker_nodes changed or a Kubernetes version declared.
CreateFollowUpStep == pc = "setid" /\ pc' # "setid" /\ d.worker_nodes # << >>

UpdateStep ==
  /\ pc = "idle" /\ op' = "update" /\ diags' \notin {"clientErr", "tokenErr"}

UpdateRequested == d'.worker_nodes # d.worker_nodes \/ d'.kubernetes_version # ""

\* C14: when no entry of default_machine_sets_detail has role worker,
\* clusterCreateContext's follow-up and clusterUpdateContext return the error
\* of GetDefaultWorkersName to the host, and they make no update call: no
\* machine sets are sent and no wait for the update starts.
C14_NoWorkerRoleFailsBeforeUpdateCall ==
  [][ /\ (NoDefaultWorker(d') /\ (CreateFollowUpStep \/ (UpdateStep /\ UpdateRequested))) =>
           /\ pc' = "done" /\ diags' = "noworker"
           /\ calls'.put = 0 /\ sent' = << >>
           /\ conf'.row \notin {"create_update", "update"}
      /\ (NoDefaultWorker(d') /\ op' \in {"create", "update"} /\ d'.id # "") =>
           (calls'.put = 0 /\ sent' = << >>)
    ]_vars

C14_Witness ==
  /\ op = "update" /\ pc = "done" /\ diags = "noworker"
  /\ d.worker_nodes # << >> /\ d.id = ClusterId
  /\ calls.put = 0 /\ calls.token = 1

ReadStep == pc = "read" \/ (pc = "idle" /\ op' = "read")

\* C16: clusterReadContext makes at most one get-cluster call and, after it
\* succeeded, one kubeconfig call; it makes no list query, no mutating call
\* and starts no wait; it returns in that one step, with success exactly when
\* both calls succeeded, whatever state the cluster is reported in; and it
\* leaves the id as it was, also when a call fails.
C16_ReadIsOneShot ==
  [][ ReadStep =>
        /\ pc' = "done"
        /\ d'.id = d.id /\ d'.id # ""
        /\ calls'.list = calls.list /\ calls'.post = calls.post
        /\ calls'.put = calls.put /\ calls'.delete = calls.delete
        /\ calls'.get \in {calls.get, calls.get + 1}
        /\ calls'.kubeconfig \in {calls.kubeconfig, calls.kubeconfig + 1}
        /\ calls'.kubeconfig = calls.kubeconfig + 1 => calls'.get = calls.get + 1
        /\ diags' = "ok" =>
             /\ calls'.get = calls.get + 1
             /\ calls'.kubeconfig = calls.kubeconfig + 1
             /\ d'.kubeconfig /\ d'.state \in RemoteStates
        /\ diags' \in {"ok", "clientErr", "tokenErr", "getErr", "kubeconfigErr"}
        /\ poll'.attempts = poll.attempts /\ poll'.status = poll.status
        /\ (op' = "read" => poll' = NoPoll /\ conf' = NoConf)
    ]_vars

C16_Witness ==
  /\ op = "read" /\ pc = "done" /\ diags = "ok"
  /\ d.state = stateUpdating /\ d.id = ClusterId
  /\ calls.get = 1 /\ calls.kubeconfig = 1 /\ calls.list = 0

\* C17: when the create call or an update call fails, with or without an HTTP
\* response, the handler returns an error to the host (it does not crash),
\* and no wait is started for the failed call.
C17_FailedCallReturnsError ==
  /\ pc # "crash"
  /\ diags # "panic"
  /\ diags \in {"postErr", "putErr"} =>
       /\ pc = "done"
       /\ poll.status \in {"none", "success"}

\* C18: for both blueprint kinds, a Delete that returned success has made the
\* delete call, has cleared the id, and the backend's blueprints hold no item
\* with the id the resource had; a Delete that returned an error (no client,
\* no token, a failed delete call) has left the id set.
C18_BlueprintDeleteClearsIdAfterDeleteCall ==
  bp.op = "delete" =>
    /\ bp.pc = "done"
    /\ bp.idBefore # ""
    /\ IF bp.diags = "ok"
         THEN /\ bp.id = ""
              /\ bp.calls.delete = 1
              /\ bp.idBefore \notin bp.remote
         ELSE /\ bp.id = bp.idBefore
              /\ bp.diags \in {"clientErr", "tokenErr", "deleteErr"}
    /\ bp.calls.delete = 0 => bp.id = bp.idBefore

C18_Witness ==
  /\ bp.kind = "cluster" /\ bp.op = "delete" /\ bp.diags = "ok"
  /\ bp.id = "" /\ bp.idBefore = BlueprintId(2)
  /\ bp.remote = { ForeignBlueprint }

\* C19: for both blueprint kinds, a Create that returned success has set the
\* id the create call returned, that of a blueprint the backend holds; a
\* Create whose create call failed has returned an error to the host and has
\* set no id.
C19_BlueprintCreateSetsIdOrReturnsError ==
  bp.op = "create" =>
    /\ bp.pc = "done"
    /\ bp.diags = "ok" =>
         /\ bp.calls.post = 1
         /\ bp.id = BlueprintId(bp.next - 1)
         /\ bp.id \in bp.remote
    /\ (bp.calls.post = 1 /\ bp.id = "") => bp.diags = "postErr"
    /\ bp.calls.post = 0 => (bp.id = "" /\ bp.diags \in {"clientErr", "tokenErr"})

\* C20: a wait always returns; a wait whose attempts all found the cluster in
\* a pending state returns a timeout error to the host, and it returns when
\* conf.Timeout has elapsed, not later than one polling interval after it,
\* having made no attempt at or after the deadline.
C20_PendingPastDeadlineTimesOut ==
  /\ (pc = "poll") ~> (pc # "poll")
  /\ [](( /\ rec /\ pc = "done" /\ poll.attempts >= 1
          /\ poll.attempts = Len(trace)
          /\ \A i \in DOMAIN trace : PendingObs(trace[i]) ) =>
         /\ poll.status = "timeout" /\ diags = "timeout"
         /\ poll.clock >= TimeoutTicks /\ poll.clock <= TimeoutTicks + 1
         /\ poll.attempts <= TimeoutTicks)

C20_Witness ==
  /\ rec /\ pc = "done" /\ poll.status = "timeout" /\ diags = "timeout"
  /\ conf.row = "create" /\ Len(trace) = TimeoutTicks
  /\ \A i \in DOMAIN trace : PendingObs(trace[i])

\* An attempt of the running wait: the closure ran once more.
AttemptStep == pc = "poll" /\ poll'.attempts = poll.attempts + 1

IsTransientHttp(resp) ==
  resp.kind = "http" /\ resp.status \in {StatusInternalServerError, StatusGatewayTimeout}
IsSuccessfulQuery(resp) == resp.kind \in {"absent", "found"}

\* The length of the run of status-500/504 attempts that ends the trace.
TransientHttpRun ==
  Cardinality({ i \in DOMAIN trace : \A j \in i .. Len(trace) : IsTransientHttp(trace[j]) })

\* C21: status 500 and status 504 are counted by one counter: in a run of
\* attempts that each got status 500 or 504, begun at the start of the wait or
\* after a successful list query, the k-th attempt returns retrying for k < 3
\* (the wait goes on, the counter is k) and the 3rd returns the error, which
\* ends the wait and the handler.
C21_Http500And504ShareCounter ==
  LET k == TransientHttpRun
      n == Len(trace)
  IN  (rec /\ poll.attempts = n /\ k >= 1 /\ (k = n \/ IsSuccessfulQuery(trace[n - k]))) =>
        IF k < retryLimit
          THEN /\ poll.state = stateRetrying
               /\ poll.status \in {"pending", "timeout"}
               /\ poll.errRetryCount = k
               /\ diags \in {"none", "timeout"}
          ELSE /\ k = retryLimit
               /\ poll.status = "error" /\ pc = "done" /\ diags = "http"

C21_Witness ==
  /\ rec /\ Len(trace) = 4 /\ IsSuccessfulQuery(trace[1])
  /\ trace[2].status = StatusGatewayTimeout /\ trace[3].status = StatusInternalServerError
  /\ trace[4].status = StatusGatewayTimeout
  /\ poll.status = "error" /\ diags = "http"

\* C22: an attempt whose list query fails with an HTTP status other than 500
\* and 504 ends the wait at that attempt, whatever the error counter holds:
\* the handler returns the error, and neither counter nor the resource data
\* changes.
C22_OtherStatusIsFatal ==
  [][ (AttemptStep /\ poll'.resp.kind = "http" /\ ~IsTransientHttp(poll'.resp)) =>
        /\ poll'.status = "error" /\ pc' = "done" /\ diags' = "http"
        /\ poll'.errRetryCount = poll.errRetryCount
        /\ poll'.noEntryInListRetryCount = poll.noEntryInListRetryCount
        /\ d' = d ]_vars

C22_Witness ==
  /\ poll.resp = Resp("http", StatusServiceUnavailable, "")
  /\ poll.errRetryCount = 2 /\ poll.attempts = 3
  /\ poll.status = "error" /\ pc = "done" /\ diags = "http"

\* C23: an attempt whose list query fails with no response counts a network
\* timeout on errRetryCount, the counter of status 500 and 504, returns
\* retrying while the counter is below 3 and returns the error when it
\* reaches 3; any other error is returned at once and the counter is left as
\* it was.
C23_NoResponseTimeoutIsCounted ==
  [][ /\ (AttemptStep /\ poll'.resp.kind = "netTimeout") =>
           /\ poll'.errRetryCount = poll.errRetryCount + 1
           /\ poll'.noEntryInListRetryCount = poll.noEntryInListRetryCount
           /\ IF poll'.errRetryCount < retryLimit
                THEN /\ poll'.state = stateRetrying /\ poll'.status = "pending"
                     /\ pc' = "poll" /\ diags' = diags
                ELSE /\ poll'.errRetryCount = retryLimit
                     /\ poll'.status = "error" /\ pc' = "done" /\ diags' = "list"
      /\ (AttemptStep /\ poll'.resp.kind = "netErr") =>
           /\ poll'.errRetryCount = poll.errRetryCount
           /\ poll'.noEntryInListRetryCount = poll.noEntryInListRetryCount
           /\ poll'.status = "error" /\ pc' = "done" /\ diags' = "list" ]_vars

C23_Witness ==
  /\ poll.resp.kind = "netTimeout" /\ poll.errRetryCount = retryLimit
  /\ poll.attempts = 4 /\ poll.status = "error" /\ diags = "list"

IsTransient(resp) == IsTransientHttp(resp) \/ resp.kind = "netTimeout"

\* The length of the run of transient errors that ends the trace.
TransientRun ==
  Cardinality({ i \in DOMAIN trace : \A j \in i .. Len(trace) : IsTransient(trace[j]) })

CountTransient == Cardinality({ i \in DOMAIN trace : IsTransient(trace[i]) })

\* C24: errRetryCount is set to 0 by an attempt whose list query succeeds and
\* by no other; an attempt that got a transient error leaves it incremented.
\* So a wait whose attempts got transient errors or found the cluster in a
\* pending state, with no 3 transient errors in a row, has returned no error,
\* however many transient errors it got in total, and the counter is the
\* length of the run of transient errors that ends the attempts.
C24_ErrCountResetOnlyBySuccess ==
  /\ [][ AttemptStep =>
           IF IsSuccessfulQuery(poll'.resp) THEN poll'.errRetryCount = 0
           ELSE IF IsTransient(poll'.resp) THEN poll'.errRetryCount > poll.errRetryCount
           ELSE poll'.errRetryCount = poll.errRetryCount ]_vars
  /\ [] ( ( /\ rec /\ trace # << >> /\ poll.attempts = Len(trace)
            /\ \A i \in DOMAIN trace : IsTransient(trace[i]) \/ PendingObs(trace[i])
            /\ \A i \in 1 .. Len(trace) - 2 :
                 ~(IsTransient(trace[i]) /\ IsTransient(trace[i + 1]) /\ IsTransient(trace[i + 2])) ) =>
          /\ poll.status \in {"pending", "timeout"}
          /\ diags \in {"none", "timeout"}
          /\ poll.errRetryCount = TransientRun )

C24_Witness ==
  /\ rec /\ Len(trace) = 4 /\ poll.attempts = 4 /\ CountTransient = retryLimit
  /\ PendingObs(trace[3])
  /\ poll.status = "pending" /\ pc = "poll" /\ poll.errRetryCount = 1

IsFailedQuery(resp) == resp.kind \in {"http", "netTimeout", "netErr"}

\* C25: the two counters of the closure are independent.  An attempt whose
\* list query failed leaves noEntryInListRetryCount as it was; an attempt that
\* did not find the cluster in the list sets errRetryCount to 0 and never
\* raises it; an attempt whose list query succeeded sets errRetryCount to 0;
\* an attempt that found the cluster sets both counters to 0.
C25_CountersIndependent ==
  [][ AttemptStep =>
        /\ IsFailedQuery(poll'.resp) =>
             poll'.noEntryInListRetryCount = poll.noEntryInListRetryCount
        /\ IsAbsent(poll'.resp) =>
             /\ poll'.errRetryCount = 0
             /\ poll'.noEntryInListRetryCount \in
                  { poll.noEntryInListRetryCount, poll.noEntryInListRetryCount + 1 }
        /\ IsSuccessfulQuery(poll'.resp) => poll'.errRetryCount = 0
        /\ poll'.resp.kind = "found" =>
             poll'.errRetryCount = 0 /\ poll'.noEntryInListRetryCount = 0 ]_vars

C25_Witness ==
  /\ rec /\ Len(trace) = 4 /\ poll.attempts = 4
  /\ IsAbsent(trace[1]) /\ IsTransient(trace[2]) /\ IsAbsent(trace[3])
  /\ trace[4].kind = "found"
  /\ poll.errRetryCount = 0 /\ poll.noEntryInListRetryCount = 0

\* C26: every attempt of a wait calls the token provider once, before its
\* list query: when the provider fails the attempt makes no list query and
\* the wait ends with the provider's error; otherwise the attempt makes one
\* list query, which carries the token of that call, a token no earlier
\* call of the handler was given.
C26_TokenAcquiredEveryAttempt ==
  [][ AttemptStep =>
        /\ calls'.token = calls.token + 1
        /\ IF poll'.resp.kind = "tokenErr"
             THEN /\ calls'.list = calls.list
                  /\ poll'.listToken = poll.listToken
                  /\ poll'.status = "error" /\ pc' = "done" /\ diags' = "token"
             ELSE /\ calls'.list = calls.list + 1
                  /\ poll'.listToken = calls'.token
                  /\ poll'.listToken > calls.token
                  /\ poll'.listToken > poll.listToken ]_vars

C26_Witness ==
  /\ pc = "poll" /\ poll.attempts = 3 /\ calls.list = 3
  /\ calls.token = 4 /\ poll.listToken = 4

\* C27: the wait a handler runs has the pending and target states of its row:
\* the first wait of Create {initializing, infra-provisioning, creating,
\* retrying} -> ready; the wait after Create's update call and the wait of
\* Update {infra-provisioning, creating, retrying, updating,
\* infra-deprovisioning, upgrading} -> ready; the wait of Delete {deleting,
\* retrying} -> deleted.  So a cluster found initializing or deleting ends the
\* wait of Update with an unexpected-state error, and so does a cluster found
\* updating in the first wait of Create.
C27_PendingAndTargetPerOperation ==
  /\ conf.row = "none" => calls.list = 0
  /\ conf.row = "create" =>
       /\ op = "create"
       /\ conf.pending = {"initializing", "infra-provisioning", "creating", "retrying"}
       /\ conf.target = {"ready"}
  /\ conf.row = "create_update" =>
       /\ op = "create" /\ calls.put = 1
       /\ conf.pending = {"infra-provisioning", "creating", "retrying", "updating",
                          "infra-deprovisioning", "upgrading"}
       /\ conf.target = {"ready"}
  /\ conf.row = "update" =>
       /\ op = "update" /\ calls.put = 1
       /\ conf.pending = {"infra-provisioning", "creating", "retrying", "updating",
                          "infra-deprovisioning", "upgrading"}
       /\ conf.target = {"ready"}
  /\ conf.row = "delete" =>
       /\ op = "delete" /\ calls.delete = 1
       /\ conf.pending = {"deleting", "retrying"}
       /\ conf.target = {"deleted"}
  /\ (op \in {"update", "delete"} /\ conf.row # "none") => conf.row = op
  /\ (poll.attempts >= 1 /\ poll.resp.kind = "found") =>
       /\ (op = "update" /\ poll.resp.state \in {"initializing", "deleting"}) =>
            (poll.status = "unexpected" /\ diags = "unexpectedState")
       /\ (conf.row = "create" /\ poll.resp.state = "updating") =>
            (poll.status = "unexpected" /\ diags = "unexpectedState")

C27_Witness ==
  /\ op = "update" /\ conf.row = "update" /\ poll.attempts = 2
  /\ poll.resp = Resp("found", 200, "initializing")
  /\ poll.status = "unexpected" /\ diags = "unexpectedState"

\* C28: with calls that return at once, the first attempt of the wait of
\* Delete is made one polling interval after the delete call returned, and
\* the first attempt of the waits of Create and Update is made with no delay;
\* every later attempt follows the one before it by one polling interval.
C28_DeleteWaitsOneIntervalFirst ==
  (rec /\ conf.row # "none") =>
    /\ conf.delay = (IF conf.row = "delete" THEN 1 ELSE 0)
    /\ poll.attempts = 0 => poll.clock >= conf.delay
    /\ (poll.attempts >= 1 /\ poll.status # "timeout") =>
         poll.clock = conf.delay + poll.attempts - 1

C28_Witness ==
  /\ rec /\ conf.row = "delete" /\ poll.attempts = 1 /\ poll.clock = 1 /\ pc = "poll"

C28_WitnessNoDelay ==
  /\ rec /\ conf.row = "update" /\ poll.attempts = 1 /\ poll.clock = 0 /\ pc = "poll"

\* What the closure returns for the last of the first n inputs tr[1..n] when
\* it runs alone, with both counters at 0 before tr[1].
RECURSIVE Alone(_, _, _)
Alone(tr, n, expectedState) ==
  IF n = 0 THEN Ret("", "nil", 0, 0)
  ELSE LET before == Alone(tr, n - 1, expectedState)
       IN  getTokenFunc(before.errRetryCount, before.noEntryInListRetryCount,
                        expectedState, tr[n])

\* C29: the two counters belong to one wait.  Both are 0 when a wait starts,
\* the second wait of one Create included, and when two handlers run at the
\* same time, under every interleaving of their attempts, an attempt of one
\* changes nothing of the other's wait, and the counters and the outcome of
\* each wait are those the wait has when it runs alone on the same inputs.
C29_CountersBelongToOneWait ==
  /\ [][ \A r \in Reconcilers :
           pair'[r] # pair[r] => \A q \in Reconcilers \ {r} : pair'[q] = pair[q] ]_vars
  /\ [] ( \A r \in Reconcilers :
            LET w == pair[r]
                alone == Alone(w.trace, Len(w.trace), w.conf.expected)
            IN  /\ w.poll.attempts = Len(w.trace)
                /\ w.poll.errRetryCount = alone.errRetryCount
                /\ w.poll.noEntryInListRetryCount = alone.noEntryInListRetryCount
                /\ w.poll.attempts >= 1 =>
                     \/ w.poll.status = WaitStep(w.conf.pending, w.conf.target, alone)
                     \/ w.poll.status = "timeout"
                          /\ WaitStep(w.conf.pending, w.conf.target, alone) = "pending" )

C29_Witness ==
  /\ pair["r1"].conf.row = "create_update" /\ pair["r1"].poll.status = "pending"
  /\ pair["r1"].poll.errRetryCount = 2 /\ pair["r1"].poll.noEntryInListRetryCount = 0
  /\ pair["r2"].conf.row = "update" /\ pair["r2"].poll.status = "pending"
  /\ pair["r2"].poll.errRetryCount = 0 /\ pair["r2"].poll.noEntryInListRetryCount = 2
  /\ Len(pair["r2"].trace) = 3

\* The number of attempts since the last one that found the cluster in which
\* a successful list query did not hold it.
AbsentSinceFound ==
  Cardinality({ i \in DOMAIN trace :
                  /\ IsAbsent(trace[i])
                  /\ \A j \in i .. Len(trace) : trace[j].kind # "found" })

WaitOutcomes == {"success", "error", "unexpected", "timeout"}

\* C30: under fair scheduling of the attempts and of the timer every wait
\* returns, with one outcome: success (the last attempt returned a target
\* state), an error (returned to the host by the handler), or the timeout
\* (returned to the host by the handler).  While a wait is running, fewer than
\* 3 transient errors end its attempts, at most 3 absences were counted since
\* the cluster was last found, and no more attempts were made than fit in the
\* timeout.
C30_EveryWaitReturns ==
  /\ (pc = "poll") ~> (pc # "poll")
  /\ [] ( /\ pc = "poll" =>
               /\ poll.status \in {"polling", "pending"}
               /\ TransientRun < retryLimit
               /\ conf.expected # stateDeleted => AbsentSinceFound <= retryLimit
               /\ poll.attempts <= TimeoutTicks /\ poll.clock <= TimeoutTicks
          /\ (pc # "poll" /\ poll.status # "none") =>
               /\ poll.status \in WaitOutcomes
               /\ poll.status = "success" =>
                    /\ poll.state \in conf.target
                    /\ diags \notin {"timeout", "http", "list", "token", "notfound",
                                     "unexpectedState"}
               /\ poll.status \in {"error", "unexpected"} =>
                    /\ pc = "done"
                    /\ diags \in {"http", "list", "token", "notfound", "unexpectedState"}
               /\ poll.status = "timeout" => (pc = "done" /\ diags = "timeout") )

C30_Witness ==
  /\ rec /\ Len(trace) = 4 /\ conf.row = "update"
  /\ \A i \in DOMAIN trace : IsAbsent(trace[i])
  /\ poll.status = "error" /\ pc = "done" /\ diags = "notfound"

C30_WitnessRetryingUntilTimeout ==
  /\ rec /\ Len(trace) = 4 /\ poll.status = "timeout" /\ diags = "timeout"
  /\ Is500(trace[1]) /\ Is500(trace[2]) /\ PendingObs(trace[3]) /\ IsAbsent(trace[4])

\* The snapshot of the defaults in the resource data.
Snapshot(data) == << data.default_machine_sets, data.default_machine_sets_detail >>

\* C31: default_machine_sets and default_machine_sets_detail are written by
\* clusterCreateContext alone, when its first wait has returned success (the
\* cluster was found ready), with the machine sets and details of the cluster
\* the create call returned; they are dropped with the resource when the host
\* removes it.  No step of Update, Read or Delete changes them, and the
\* machine sets Update sends are merged from them.
C31_SnapshotWrittenByCreateOnly ==
  [][ /\ Snapshot(d') # Snapshot(d) =>
           \/ /\ op = "create" /\ pc = "setid" /\ conf.row = "create"
              /\ poll.status = "success" /\ poll.state = stateReady
              /\ d.id = "" /\ d'.id = cluster.Id
              /\ Snapshot(d') = << cluster.MachineSets, cluster.MachineSetsDetail >>
           \/ /\ pc = "done" /\ pc' = "idle" /\ d.id = "" /\ d' = EmptyD
      /\ op' \in {"update", "read", "delete"} => Snapshot(d') = Snapshot(d)
      /\ (UpdateStep /\ calls'.put = 1) =>
           sent' = UpdateMerge(d'.worker_nodes, d.default_machine_sets, d.machine_sets,
                               GetDefaultWorkersName(d.default_machine_sets_detail).names)
    ]_vars

C31_Witness ==
  /\ op = "update" /\ pc = "done" /\ diags = "ok" /\ calls.put = 1 /\ calls.get = 1
  /\ d.id = ClusterId /\ d.default_machine_sets # << >>
  /\ d.machine_sets # d.default_machine_sets
  /\ Len(sent) = 2

\* The first wait of the running clusterCreateContext returned success.
FirstWaitReady ==
  \/ conf.row = "create" /\ poll.status = "success" /\ poll.state = stateReady
  \/ conf.row = "create_update"

\* C32: in clusterCreateContext, after the create call succeeded, the id is
\* persisted exactly when the first wait found the cluster ready.  When the
\* first wait failed the handler returns an error to the host with the id
\* empty; once the first wait returned success the id is the cluster's, and
\* the handler returns to the host with that id also when the update call or
\* the second wait fails.
C32_CreateIdPersistedIffFirstWaitReady ==
  (op = "create" /\ cluster # NoCluster) =>
    /\ d.id \in {"", cluster.Id}
    /\ d.id # "" => FirstWaitReady
    /\ (FirstWaitReady /\ pc # "setid") => d.id = cluster.Id
    /\ pc \in {"poll", "setid", "read", "done"}
    /\ (pc = "done" /\ d.id = "") => diags # "ok"

\* The same holds on every path but the one on which the update call fails
\* with no response.
C32_ExceptNilResponse ==
  diags # "panic" => C32_CreateIdPersistedIffFirstWaitReady

\* C33: in a wait for ready, noEntryInListRetryCount is the number of
\* successful list queries without the cluster since the wait started or the
\* cluster was last found, whatever failed queries lie between them: the
\* first three such queries return retrying, and the fourth ends the wait
\* with the not-found error, also when retried errors separate them.
C33_AbsencesCountAcrossErrors ==
  (rec /\ conf.expected = stateReady /\ trace # << >> /\ poll.attempts = Len(trace)) =>
    /\ poll.noEntryInListRetryCount = AbsentSinceFound
    /\ IsAbsent(trace[Len(trace)]) =>
         IF AbsentSinceFound <= retryLimit
           THEN /\ poll.state = stateRetrying
                /\ poll.status \in {"pending", "timeout"}
                /\ diags \in {"none", "timeout"}
           ELSE /\ AbsentSinceFound = retryLimit + 1
                /\ poll.status = "error" /\ pc = "done" /\ diags = "notfound"

C33_Witness ==
  /\ rec /\ Len(trace) = 5 /\ conf.expected = stateReady
  /\ IsAbsent(trace[1]) /\ Is500(trace[2]) /\ IsAbsent(trace[3])
  /\ trace[4].kind = "netTimeout" /\ IsAbsent(trace[5])
  /\ poll.noEntryInListRetryCount = 3 /\ poll.state = stateRetrying

C33_WitnessFatal ==
  /\ rec /\ Len(trace) = 5 /\ conf.expected = stateReady
  /\ IsAbsent(trace[1]) /\ IsAbsent(trace[2]) /\ Is500(trace[3])
  /\ IsAbsent(trace[4]) /\ IsAbsent(trace[5])
  /\ poll.status = "error" /\ pc = "done" /\ diags = "notfound"

\* C34: the wait after the update call of Update and of Create starts with no
\* delay and has ready as its target: when its first list query still finds
\* the cluster ready, the wait returns success at that attempt, made at time
\* 0 of the wait, and the handler goes on with the read, having seen no state
\* but ready.
C34_ReadyAtFirstAttemptEndsUpdateWait ==
  (rec /\ conf.row \in {"create_update", "update"}) =>
    /\ conf.delay = 0 /\ conf.target = {stateReady}
    /\ poll.attempts = 0 => poll.clock = 0
    /\ (trace # << >> /\ trace[1] = Resp("found", 200, stateReady)) =>
         /\ Len(trace) = 1 /\ poll.attempts = 1 /\ poll.clock = 0
         /\ poll.status = "success" /\ pc = "read" /\ diags = "none"
         /\ calls.put = 1 /\ sent # << >>

C34_Witness ==
  /\ rec /\ conf.row = "update" /\ trace = << Resp("found", 200, stateReady) >>
  /\ poll.attempts = 1 /\ poll.status = "success" /\ pc = "read" /\ calls.put = 1

\* C35: in clusterDeleteContext, after the delete call was accepted, an
\* attempt of the wait (the first is made after the delay) that finds the
\* cluster in a state other than deleting and deleted, ready included, ends
\* the wait: the handler returns the unexpected-state error and the id is the
\* one Delete started with.
C35_DeleteFailsOnClusterStillReady ==
  (op = "delete" /\ poll.attempts >= 1 /\ poll.resp.kind = "found"
     /\ poll.resp.state \notin {stateDeleting, stateDeleted}) =>
    /\ calls.delete = 1 /\ conf.row = "delete"
    /\ poll.clock >= 1
    /\ poll.status = "unexpected" /\ pc = "done" /\ diags = "unexpectedState"
    /\ d.id = idBefore /\ d.id # ""

C35_Witness ==
  /\ op = "delete" /\ calls.delete = 1 /\ poll.attempts = 1 /\ poll.clock = 1
  /\ poll.resp = Resp("found", 200, stateReady)
  /\ pc = "done" /\ diags = "unexpectedState" /\ d.id = ClusterId

\* C36: the update call clusterCreateContext makes after its first wait
\* carries the token the handler acquired when it started: the handler asks
\* for no token between the end of the first wait and the update call, while
\* every attempt of the first wait acquired a later token for its list query,
\* and so does every attempt of the second wait.
C36_CreateUpdateCallUsesFirstToken ==
  /\ [][ (pc = "setid" /\ calls'.put = 1) =>
           /\ calls'.token = calls.token
           /\ calls'.putToken = 1
           /\ poll.attempts >= 1 /\ calls.token >= poll.attempts + 1
           /\ poll.listToken = calls.token /\ poll.listToken > calls'.putToken ]_vars
  /\ [] ( (op = "create" /\ calls.put = 1) =>
            /\ calls.putToken = 1
            /\ (conf.row = "create_update" /\ poll.attempts >= 1
                  /\ poll.resp.kind # "tokenErr") =>
                 /\ poll.listToken > calls.putToken + 1
                 /\ poll.listToken <= calls.token
                 /\ pc = "poll" => poll.listToken = calls.token )

C36_Witness ==
  /\ op = "create" /\ conf.row = "create_update" /\ calls.put = 1 /\ calls.putToken = 1
  /\ poll.attempts = 2 /\ calls.token = 6 /\ poll.listToken = 6

\* C37: an attempt in which auth.GetToken fails ends the wait at once,
\* whatever the counters hold, 0 included: no list query is made, both
\* counters and the resource data stay as they were, and the handler returns
\* the error of auth.GetToken.
C37_TokenErrorInAttemptIsFatal ==
  [][ (AttemptStep /\ poll'.resp.kind = "tokenErr") =>
        /\ calls'.list = calls.list
        /\ poll'.errRetryCount = poll.errRetryCount
        /\ poll'.noEntryInListRetryCount = poll.noEntryInListRetryCount
        /\ poll'.state = ""
        /\ poll'.status = "error" /\ pc' = "done" /\ diags' = "token"
        /\ d' = d ]_vars

C37_Witness ==
  /\ poll.resp.kind = "tokenErr" /\ poll.attempts = 1 /\ calls.list = 0
  /\ poll.errRetryCount = 0 /\ poll.noEntryInListRetryCount = 0
  /\ poll.status = "error" /\ pc = "done" /\ diags = "token" /\ op = "update"

\* C38: the counters of the closure are never negative.  While a wait goes
\* on, and so whenever its last attempt returned retrying, errRetryCount is at
\* most 2 and noEntryInListRetryCount at most 3; errRetryCount is above 2 only
\* after an attempt that returned the error of a failed list query, which
\* ended the wait.
C38_CounterBounds ==
  /\ poll.errRetryCount >= 0 /\ poll.noEntryInListRetryCount >= 0
  /\ (pc = "poll" \/ (poll.state = stateRetrying /\ poll.status \in {"pending", "timeout"})) =>
       /\ poll.errRetryCount <= retryLimit - 1
       /\ poll.noEntryInListRetryCount <= retryLimit
  /\ poll.errRetryCount > retryLimit - 1 =>
       /\ poll.status = "error" /\ pc = "done" /\ diags \in {"http", "list"}
       /\ poll.resp.kind \in {"http", "netTimeout"}
       /\ poll.errRetryCount <= retryLimit + 1
  /\ poll.noEntryInListRetryCount > retryLimit =>
       /\ poll.status = "error" /\ pc = "done" /\ diags = "notfound"
       /\ poll.noEntryInListRetryCount = retryLimit + 1

C38_Witness ==
  /\ pc = "poll" /\ poll.state = stateRetrying /\ poll.status = "pending"
  /\ poll.errRetryCount = 2 /\ poll.noEntryInListRetryCount = 3

C38_WitnessFatal ==
  /\ poll.errRetryCount = retryLimit + 1 /\ poll.status = "error" /\ diags = "http"

====
